---- MODULE Spec2Model ----
(***************************************************************************)
(* Pribambase: the link between Blender and Aseprite.                      *)
(*                                                                         *)
(* Two specifications share this module:                                   *)
(*   SheetSpec - the spritesheet atlas assembler (Spritesheet.execute in   *)
(*               messaging/handle.py) and its consumer                     *)
(*               (SB_OT_update_spritesheet.modal_execute in modify.py);    *)
(*   Spec      - the websocket server (sync.py), the session (addon.py)    *)
(*               and the message dispatcher with its handlers.             *)
(***************************************************************************)
EXTENDS Integers, Sequences, FiniteSets, TLC

(***************************************************************************)
(* Bounds of the model.                                                    *)
(***************************************************************************)
MaxFrames == 10
MaxW == 2
MaxH == 2

MaxSent == 2        \* messages the peers send in one run
MaxReports == 3     \* turns of a loop that reports on every turn
MaxTime == 8        \* the clock stops here, in tenths of a second
MaxUvSent == 3      \* uv_send calls in one run
MaxStops == 1       \* _stop_a tasks scheduled and not finished
MaxOutbox == 2      \* messages sent to one peer
MaxLoopErrors == 1  \* exceptions of tasks that nothing awaits
MaxList == 2        \* entries of a list field of a message given to the codec

VARIABLES
    sheetPc,        \* position of the spritesheet pipeline
    sheetMsg,       \* the parsed arguments of the Spritesheet message
    sheetOp,        \* _update_spritesheet_args / SB_OT_update_spritesheet.args
    sheetTex,       \* the update_image call that stores the atlas
    sheetView,      \* the update_image call that stores the current frame
    sheetReports,   \* number of warnings reported by Spritesheet.execute
    server_up,      \* addon._server is not None
    ws,             \* Server._ws: 0 for None, else the peer whose socket it is
    wsClosed,       \* per peer: its WebSocketResponse is closed
    uv_sync_auto,   \* addon.prefs.uv_sync_auto
    watch,          \* addon.watch: 0 for None, else the peer whose _receive made it
    running,        \* UVWatch.running: 0 for None, else as watch
    active_sprite,  \* addon.active_sprite
    pc,             \* per peer: position of its _receive coroutine
    inq,            \* per peer: websocket messages sent and not yet received
    received,       \* per peer: the binary messages _receive took, in order
    tasks,          \* per peer: the process() calls in progress, each a stack
    events,         \* per peer: what the dispatcher did for its messages
    outbox,         \* per peer: number of messages sent to it
    spinning,       \* the peer whose ChangeName.execute loops on the locked UI, or 0
    reports,        \* bpy.ops.pribambase.report: number of reports per message_type
    site,           \* addon._server._site: "none", "started", or "unstarted" (made, not bound)
    bound,          \* the host and port are held by a started site
    stops,          \* the _stop_a tasks scheduled and not finished
    futures,        \* the send_bytes futures Server.send scheduled, by socket
    loop_errors,    \* exceptions raised in tasks that nothing awaits
    sync_flags,     \* img.sb_props.sync_flags of the image in the editor
    peer_flags,     \* per peer: the flags of the image as last sent to it, or None
    op,             \* the last operator or entry point called, and how it ended
    now,            \* the clock, in tenths of a second
    timer_at,       \* when bpy.app.timers calls timer_callback next; -1 if never
    idle_t,         \* UVWatch.idle_t, in tenths of a second
    send_pending,   \* UVWatch.send_pending
    uv_sent,        \* the times of the bpy.ops.pribambase.uv_send calls
    debounce,       \* addon.prefs.debounce, in tenths of a second
    uv_watch,       \* addon.state.uv_watch: when the UV map is updated
    codecPc,        \* position of the codec round trip
    codecIn,        \* the message to encode: its tag and arguments
    codecOut,       \* what the dispatcher decoded from the encoded message
    interface_locked, \* window_manager.is_interface_locked as a handler last read it
    data_images,    \* bpy.data.images: the images by identity
    next_image,     \* the identity of the image created next
    data_actions,   \* bpy.data.actions: the actions by identity
    next_action,    \* the identity of the action created next
    update_image_args,       \* modify._update_image_args
    update_spritesheet_args, \* modify._update_spritesheet_args
    update_frame_args,       \* modify._update_frame_args
    modal_handlers, \* the modal handlers of the window, the last added first
    calls,          \* the modify.image, modify.spritesheet, modify.frame calls made
    runs,           \* the runs of modal_execute, in order
    skip_modal,     \* addon.prefs.skip_modal, or no window in the context
    animations,     \* obj.sb_props.animations: the names of its items
    given,          \* the names animations_new gave, in order
    un_pc,          \* position of unique_name: "idle" or "loop"
    un_arg,         \* unique_name: the name it was called with
    un_name,        \* unique_name: name
    un_base,        \* unique_name: base
    un_count,       \* unique_name: count
    un_iters        \* unique_name: turns of its loop in this call

sheetVars == <<sheetPc, sheetMsg, sheetOp, sheetTex, sheetView, sheetReports>>

serverVars == <<server_up, ws, wsClosed, uv_sync_auto, watch, running,
                active_sprite, pc, inq, received, tasks, events,
                outbox, spinning, reports>>

lifeVars == <<site, bound, stops, futures, loop_errors, sync_flags, peer_flags, op>>

uvVars == <<now, timer_at, idle_t, send_pending, uv_sent, debounce, uv_watch>>

codecVars == <<codecPc, codecIn, codecOut>>

hostVars == <<interface_locked>>

dataVars == <<data_images, next_image, data_actions, next_action, update_image_args,
              update_spritesheet_args, update_frame_args, modal_handlers, calls, runs,
              skip_modal>>

nameVars == <<animations, given, un_pc, un_arg, un_name, un_base, un_count, un_iters>>

vars == <<sheetVars, serverVars, lifeVars, uvVars, codecVars, hostVars, dataVars, nameVars>>

Peers == {1, 2}

None == [none |-> TRUE]

\* None where a name may stand: no name holds this byte
NoName == <<-1>>

\* UVWatch.PERIOD and the default of prefs.debounce, in tenths of a second
PERIOD == 2
DefaultDebounce == 5

\* no server was started, no operator was called
LifeIdle ==
    /\ site = "none" /\ bound = FALSE /\ stops = <<>> /\ futures = <<>>
    /\ loop_errors = 0 /\ sync_flags = {} /\ peer_flags = [p \in Peers |-> None]
    /\ op = <<"none", "none">>

\* no UV watch was started
UvIdle ==
    /\ now = 0 /\ timer_at = -1 /\ idle_t = 0 /\ send_pending = FALSE
    /\ uv_sent = <<>> /\ debounce = DefaultDebounce /\ uv_watch = "ALWAYS"

CodecIdle == codecPc = "idle" /\ codecIn = None /\ codecOut = None

HostIdle == interface_locked = FALSE

\* no image, no action, no update under way
DataIdle ==
    /\ data_images = <<>> /\ next_image = 1 /\ data_actions = <<>> /\ next_action = 1
    /\ update_image_args = None /\ update_spritesheet_args = None
    /\ update_frame_args = None
    /\ modal_handlers = <<>> /\ calls = <<>> /\ runs = <<>> /\ skip_modal = FALSE

\* no animation on the object, unique_name not called
NameIdle ==
    /\ animations = <<>> /\ given = <<>> /\ un_pc = "idle" /\ un_arg = <<>>
    /\ un_name = <<>> /\ un_base = <<>> /\ un_count = 0 /\ un_iters = 0

(***************************************************************************)
(* numpy arrays of dtype ubyte: a flat row-major buffer and a 2-d shape.   *)
(* Buffer index of element (r, c), both counted from 0, is r*cols + c + 1. *)
(***************************************************************************)
NpZeros(rows, cols) ==
    [rows |-> rows, cols |-> cols, buf |-> [k \in 1..(rows * cols) |-> 0]]

\* `a.shape = (rows, cols)`: same buffer, new shape (numpy raises when the
\* sizes differ; every caller below keeps the size).
NpReshape(a, rows, cols) ==
    [rows |-> rows, cols |-> cols, buf |-> a.buf]

NpAt(a, r, c) == a.buf[r * a.cols + c + 1]

\* python slice bound: negative bounds count from the end
PyIdx(i, n) == IF i < 0 THEN n + i ELSE i

\* np.copyto(a[r0:r1, c0:c1], src) where src is a (r1-r0) x (c1-c0) array
NpCopyTo(a, r0, r1, c0, c1, src) ==
    [a EXCEPT !.buf = [k \in 1..(a.rows * a.cols) |->
        LET r == (k - 1) \div a.cols
            c == (k - 1) % a.cols
        IN  IF r >= r0 /\ r < r1 /\ c >= c0 /\ c < c1
            THEN NpAt(src, r - r0, c - c0)
            ELSE a.buf[k]]]

\* a[:, c0:c1] as an array of its own
NpCols(a, c0, c1) ==
    LET lo == PyIdx(c0, a.cols)
        hi == PyIdx(c1, a.cols)
    IN  [rows |-> a.rows, cols |-> hi - lo,
         buf |-> [k \in 1..(a.rows * (hi - lo)) |->
                    NpAt(a, (k - 1) \div (hi - lo), lo + ((k - 1) % (hi - lo)))]]

\* np.copyto(a[:, d0:d1], a[:, s0:s1], casting='no')
NpCopyCols(a, d0, d1, s0, s1) ==
    NpCopyTo(a, 0, a.rows, PyIdx(d0, a.cols), PyIdx(d1, a.cols), NpCols(a, s0, s1))

\* np.frombuffer(frame); fd.shape = (h, w * 4)
NpFromBuffer(frame, rows, cols) ==
    [rows |-> rows, cols |-> cols, buf |-> frame]

\* np.ravel(a[r0:r1, c0:c1])
NpRavelRect(a, r0, r1, c0, c1) ==
    [k \in 1..((r1 - r0) * (c1 - c0)) |->
        NpAt(a, r0 + ((k - 1) \div (c1 - c0)), c0 + ((k - 1) % (c1 - c0)))]

(***************************************************************************)
(* Spritesheet.execute: the grid                                           *)
(***************************************************************************)
RECURSIVE CeilSqrtFrom(_, _)
CeilSqrtFrom(n, c) == IF c * c >= n THEN c ELSE CeilSqrtFrom(n, c + 1)

\* the grid with the square root rounded to the nearest integer
CountXRounded(length) ==
    LET c == CeilSqrtFrom(length, 0)
    IN  IF c > 1 /\ (c - 1) * (c - 1) + (c - 1) >= length THEN c - 1 ELSE c

\* math.ceil(length ** 0.5)
CountX(length) == CeilSqrtFrom(length, 0)

\* math.ceil(length / count_x)
CountY(length) == (length + CountX(length) - 1) \div CountX(length)

Stride(w) == (w + 2) * 4

(***************************************************************************)
(* Spritesheet.execute: copying the frames with 1px padding on each side   *)
(***************************************************************************)
RECURSIVE PlaceFrames(_, _, _, _, _)
PlaceFrames(sheet_data, images, n, w, h) ==
    IF n >= Len(images) THEN sheet_data
    ELSE LET count_x == CountX(Len(images))
             stride == Stride(w)
             x == n % count_x
             y == n \div count_x
             fd == NpFromBuffer(images[n + 1], h, w * 4)
             placed == NpCopyTo(sheet_data,
                                y * (h + 2) + 1, (y + 1) * (h + 2) - 1,
                                x * stride + 4, (x + 1) * stride - 4, fd)
         IN  PlaceFrames(placed, images, n + 1, w, h)

\* the horizontal pass without turning the sheet into a single column
BleedHorizontalWholeSheet(sheet_data, count_x, count_y, w, h) ==
    LET left == NpCopyCols(sheet_data, 0, 4, 4, 8)
        right == NpCopyCols(left, -4, sheet_data.cols, -8, -4)
    IN  right

\* left and right padding, on the sheet turned into a single column of cells
BleedHorizontal(sheet_data, count_x, count_y, w, h) ==
    LET stride == Stride(w)
        column == NpReshape(sheet_data, count_x * count_y * (h + 2), stride)
        left == NpCopyCols(column, 0, 4, 4, 8)
        right == NpCopyCols(left, -4, stride, -8, -4)
    IN  right

\* the vertical pass taking the top padding from one row too far down
BleedVerticalOffByOne(sheet_data, count_x, count_y, w, h) ==
    LET wstride == count_x * Stride(w)
        rowsOfCells == NpReshape(sheet_data, count_y, (h + 2) * wstride)
        top == NpCopyCols(rowsOfCells, 0, wstride, 2 * wstride, 3 * wstride)
        bottom == NpCopyCols(top, -wstride, (h + 2) * wstride, -2 * wstride, -wstride)
    IN  bottom

\* top and bottom padding, on the sheet turned into one row per grid row
BleedVertical(sheet_data, count_x, count_y, w, h) ==
    LET wstride == count_x * Stride(w)
        rowsOfCells == NpReshape(sheet_data, count_y, (h + 2) * wstride)
        top == NpCopyCols(rowsOfCells, 0, wstride, wstride, 2 * wstride)
        bottom == NpCopyCols(top, -wstride, (h + 2) * wstride, -2 * wstride, -wstride)
    IN  bottom

\* the atlas before the bleed passes
SheetPlaced(images, w, h) ==
    LET count_x == CountX(Len(images))
        count_y == CountY(Len(images))
    IN  PlaceFrames(NpZeros((h + 2) * count_y, Stride(w) * count_x), images, 0, w, h)

\* the atlas left in the shape of the vertical pass
SheetPackNotTurnedBack(images, w, h) ==
    LET count_x == CountX(Len(images))
        count_y == CountY(Len(images))
        hb == BleedHorizontal(SheetPlaced(images, w, h), count_x, count_y, w, h)
    IN  BleedVertical(hb, count_x, count_y, w, h)

\* sheet_data as passed to modify.spritesheet
SheetPack(images, w, h) ==
    LET count_x == CountX(Len(images))
        count_y == CountY(Len(images))
        hb == BleedHorizontal(SheetPlaced(images, w, h), count_x, count_y, w, h)
        vb == BleedVertical(hb, count_x, count_y, w, h)
    IN  NpReshape(vb, (h + 2) * count_y, Stride(w) * count_x)

(***************************************************************************)
(* SB_OT_update_spritesheet.modal_execute: the cut of the current frame    *)
(***************************************************************************)
\* the cut taken without skipping the left padding
FramePixelsFromCellEdge(pixels, size, count, current_frame) ==
    LET frame_x == current_frame % count[1]
        frame_y == current_frame \div count[1]
    IN  NpRavelRect(pixels,
            frame_y * (size[2] + 2) + 1, (frame_y + 1) * (size[2] + 2) - 1,
            frame_x * (size[1] + 2) * 4, (frame_x + 1) * (size[1] + 2) * 4 - 8)

FramePixels(pixels, size, count, current_frame) ==
    LET frame_x == current_frame % count[1]
        frame_y == current_frame \div count[1]
    IN  NpRavelRect(pixels,
            frame_y * (size[2] + 2) + 1, (frame_y + 1) * (size[2] + 2) - 1,
            frame_x * (size[1] + 2) * 4 + 4, (frame_x + 1) * (size[1] + 2) * 4 - 4)

(***************************************************************************)
(* Inputs of the assembler: frames of w x h RGBA pixels.  Pattern 1 gives  *)
(* every byte of every frame its own value, pattern 2 one value per frame. *)
(***************************************************************************)
FrameBytes(pattern, i, w, h) ==
    [k \in 1..(w * h * 4) |->
        IF pattern = 1 THEN 1 + ((i * w * h * 4 + k - 1) % 255)
        ELSE 1 + (i % 255)]

SheetInputs ==
    { [size |-> <<w, h>>, length |-> n, current_frame |-> cf,
       images |-> [i \in 1..n |-> FrameBytes(p, i - 1, w, h)]] :
        w \in 1..MaxW, h \in 1..MaxH, n \in 1..MaxFrames, cf \in 0..(MaxFrames - 1),
        p \in 1..2 }

SheetInit ==
    /\ sheetPc = "parsed"
    /\ sheetMsg \in { m \in SheetInputs : m.current_frame < m.length }
    /\ sheetOp = None
    /\ sheetTex = None
    /\ sheetView = None
    /\ sheetReports = 0
    /\ server_up = FALSE /\ ws = 0 /\ wsClosed = [p \in Peers |-> FALSE]
    /\ uv_sync_auto = FALSE /\ watch = 0 /\ running = 0
    /\ active_sprite = NoName
    /\ pc = [p \in Peers |-> "none"]
    /\ inq = [p \in Peers |-> <<>>]
    /\ received = [p \in Peers |-> <<>>]
    /\ tasks = [p \in Peers |-> <<>>]
    /\ events = [p \in Peers |-> <<>>]
    /\ outbox = [p \in Peers |-> 0]
    /\ spinning = 0
    /\ reports = [INFO |-> 0, WARNING |-> 0, ERROR |-> 0]
    /\ LifeIdle /\ UvIdle /\ CodecIdle /\ HostIdle /\ DataIdle /\ NameIdle

\* Spritesheet.execute, the host UI being locked or not
SpritesheetExecute ==
    /\ sheetPc = "parsed"
    /\ \E is_interface_locked \in BOOLEAN :
        LET w == sheetMsg.size[1]
            h == sheetMsg.size[2]
            count_x == CountX(sheetMsg.length)
            count_y == CountY(sheetMsg.length)
            sheet_data == SheetPack(sheetMsg.images, w, h)
        IN  IF ~is_interface_locked
            THEN /\ sheetOp' = [size |-> sheetMsg.size, count |-> <<count_x, count_y>>,
                               current_frame |-> sheetMsg.current_frame,
                               pixels |-> sheet_data]
                 /\ sheetPc' = "modal"
                 /\ UNCHANGED sheetReports
            ELSE /\ sheetReports' = sheetReports + 1
                 /\ sheetPc' = "skipped"
                 /\ UNCHANGED sheetOp
    /\ UNCHANGED <<sheetMsg, sheetTex, sheetView>>
    /\ UNCHANGED <<serverVars, lifeVars, uvVars, codecVars, hostVars, dataVars, nameVars>>

\* tex_w, tex_h of SB_OT_update_spritesheet.modal_execute
TexSize(size, count) == <<(size[1] + 2) * count[1], (size[2] + 2) * count[2]>>

\* SB_OT_update_spritesheet.modal_execute, some image or none having the
\* sync name of the message: the atlas goes to the sheet image, the cell of
\* the current frame to the view image
UpdateSpritesheetModal ==
    /\ sheetPc = "modal"
    /\ \E imageExists \in BOOLEAN :
        IF imageExists
        THEN LET tex == TexSize(sheetOp.size, sheetOp.count)
                 frame_pixels == FramePixels(sheetOp.pixels, sheetOp.size,
                                             sheetOp.count, sheetOp.current_frame)
             IN  /\ sheetTex' = [w |-> tex[1], h |-> tex[2], frame |-> -1,
                                 pixels |-> sheetOp.pixels]
                 /\ sheetView' = [w |-> sheetOp.size[1], h |-> sheetOp.size[2],
                                  frame |-> sheetOp.current_frame,
                                  pixels |-> frame_pixels]
        ELSE UNCHANGED <<sheetTex, sheetView>>
    /\ sheetPc' = "done"
    /\ UNCHANGED <<sheetMsg, sheetOp, sheetReports>>
    /\ UNCHANGED <<serverVars, lifeVars, uvVars, codecVars, hostVars, dataVars, nameVars>>

SheetNext == SpritesheetExecute \/ UpdateSpritesheetModal

SheetSpec == SheetInit /\ [][SheetNext]_vars

(***************************************************************************)
(* Properties of the assembler                                             *)
(***************************************************************************)
SheetPacked == sheetPc \in {"modal", "done"}

\* byte b of pixel (r, c) of frame n, as sent
FrameByte(n, r, c, b) ==
    sheetMsg.images[n + 1][(r * sheetMsg.size[1] + c) * 4 + b + 1]

\* byte b of the atlas pixel at row r, column c of cell n; row and column 0
\* and h+1, w+1 are the padding of the cell
CellByte(n, r, c, b) ==
    LET w == sheetMsg.size[1]
        h == sheetMsg.size[2]
        cx == sheetOp.count[1]
    IN  sheetOp.pixels.buf[(((n \div cx) * (h + 2) + r) * (cx * (w + 2) * 4))
                           + ((n % cx) * (w + 2) + c) * 4 + b + 1]

Cells == 0..(sheetMsg.length - 1)
InnerRows == 1..sheetMsg.size[2]
InnerCols == 1..sheetMsg.size[1]

\* C3: cutting cell i out of the atlas built by Spritesheet.execute gives back
\* the pixels of frame i, for every i below the frame count, and so does the cut
\* modal_execute makes for the current frame; the bleed passes leave every
\* interior pixel as the copy of the frames put it.
C3_PackUnpackRoundTrip ==
    SheetPacked =>
        /\ \A i \in Cells :
              FramePixels(sheetOp.pixels, sheetOp.size, sheetOp.count, i)
                  = sheetMsg.images[i + 1]
        /\ \A n \in Cells, r \in InnerRows, c \in InnerCols, b \in 0..3 :
              CellByte(n, r, c, b) = FrameByte(n, r - 1, c - 1, b)
        /\ LET placed == SheetPlaced(sheetMsg.images, sheetMsg.size[1], sheetMsg.size[2])
           IN  placed.buf = [k \in DOMAIN placed.buf |->
                    IF placed.buf[k] # 0 THEN sheetOp.pixels.buf[k] ELSE 0]
        /\ (sheetPc = "done" /\ sheetView # None) =>
              sheetView.pixels = sheetMsg.images[sheetMsg.current_frame + 1]

C3_Witness ==
    /\ sheetPc = "done" /\ sheetView # None
    /\ sheetMsg.length = 5 /\ sheetMsg.current_frame = 4
    /\ sheetMsg.size = <<2, 2>>
    /\ sheetView.pixels = FrameBytes(1, 4, 2, 2)

\* C4: the padding left and right of every interior row, and above and below
\* every interior column, of every cell that holds a frame repeats the edge
\* pixel of that frame in that row or column.
C4_PaddingFromOwnEdge ==
    SheetPacked =>
        LET w == sheetMsg.size[1]
            h == sheetMsg.size[2]
        IN  \A n \in Cells, b \in 0..3 :
              /\ \A r \in InnerRows :
                    /\ CellByte(n, r, 0, b) = FrameByte(n, r - 1, 0, b)
                    /\ CellByte(n, r, w + 1, b) = FrameByte(n, r - 1, w - 1, b)
              /\ \A c \in InnerCols :
                    /\ CellByte(n, 0, c, b) = FrameByte(n, 0, c - 1, b)
                    /\ CellByte(n, h + 1, c, b) = FrameByte(n, h - 1, c - 1, b)

\* two frames side by side: the pixel right of frame 0 is frame 0's
C4_Witness ==
    /\ SheetPacked
    /\ sheetMsg.length = 2 /\ sheetOp.count = <<2, 1>>
    /\ sheetMsg.size = <<2, 1>>
    /\ CellByte(0, 1, 3, 0) = FrameByte(0, 0, 1, 0)
    /\ CellByte(0, 1, 3, 0) # FrameByte(1, 0, 0, 0)

\* C5: after the horizontal and then the vertical pass, the four corner padding
\* pixels of every cell that holds a frame equal the nearest corner pixel of
\* that frame, and the top and bottom padding rows repeat the first and last
\* interior row as the horizontal pass left them, padding columns included.
C5_CornersFromNearestCorner ==
    SheetPacked =>
        LET w == sheetMsg.size[1]
            h == sheetMsg.size[2]
            cx == sheetOp.count[1]
            cy == sheetOp.count[2]
            hb == NpReshape(BleedHorizontal(SheetPlaced(sheetMsg.images, w, h), cx, cy, w, h),
                            (h + 2) * cy, Stride(w) * cx)
        IN  /\ \A n \in Cells, b \in 0..3 :
                  /\ CellByte(n, 0, 0, b) = FrameByte(n, 0, 0, b)
                  /\ CellByte(n, 0, w + 1, b) = FrameByte(n, 0, w - 1, b)
                  /\ CellByte(n, h + 1, 0, b) = FrameByte(n, h - 1, 0, b)
                  /\ CellByte(n, h + 1, w + 1, b) = FrameByte(n, h - 1, w - 1, b)
            /\ \A y \in 0..(cy - 1), c \in 0..(Stride(w) * cx - 1) :
                  /\ NpAt(sheetOp.pixels, y * (h + 2), c) = NpAt(hb, y * (h + 2) + 1, c)
                  /\ NpAt(sheetOp.pixels, y * (h + 2) + h + 1, c) = NpAt(hb, y * (h + 2) + h, c)

C5_Witness ==
    /\ SheetPacked
    /\ sheetMsg.length = 3 /\ sheetMsg.size = <<2, 2>>
    /\ CellByte(2, 3, 3, 0) = FrameByte(2, 1, 1, 0)
    /\ CellByte(2, 3, 3, 0) # FrameByte(2, 0, 1, 0)
    /\ CellByte(2, 3, 3, 0) # FrameByte(2, 1, 0, 0)

\* C6: the grid has columns = the least c with c*c >= n and rows = the least r
\* with r*columns >= n; 10 frames give 4 x 3 and 1 frame gives 1 x 1.
C6_GridShape ==
    SheetPacked =>
        LET n == sheetMsg.length
            columns == sheetOp.count[1]
            rows == sheetOp.count[2]
        IN  /\ columns * columns >= n
            /\ (columns - 1) * (columns - 1) < n
            /\ rows * columns >= n
            /\ (rows - 1) * columns < n
            /\ n = 10 => (columns = 4 /\ rows = 3)
            /\ n = 1 => (columns = 1 /\ rows = 1)

C6_Witness ==
    SheetPacked /\ sheetMsg.length = 10 /\ sheetOp.count = <<4, 3>>

\* C7: the atlas is (frame_width+2)*columns pixels of 4 bytes wide and
\* (frame_height+2)*rows pixels tall, and that is the size modal_execute gives
\* the sheet texture when it stores the atlas.
C7_AtlasSize ==
    /\ SheetPacked =>
          /\ sheetOp.pixels.cols = (sheetMsg.size[1] + 2) * sheetOp.count[1] * 4
          /\ sheetOp.pixels.rows = (sheetMsg.size[2] + 2) * sheetOp.count[2]
          /\ Len(sheetOp.pixels.buf) = sheetOp.pixels.rows * sheetOp.pixels.cols
    /\ (sheetPc = "done" /\ sheetTex # None) =>
          /\ sheetTex.w * 4 = sheetTex.pixels.cols
          /\ sheetTex.h = sheetTex.pixels.rows
          /\ sheetTex.w = (sheetMsg.size[1] + 2) * sheetOp.count[1]
          /\ sheetTex.h = (sheetMsg.size[2] + 2) * sheetOp.count[2]

C7_Witness ==
    /\ sheetPc = "done" /\ sheetTex # None
    /\ sheetMsg.length = 5 /\ sheetMsg.size = <<2, 1>>
    /\ sheetTex.w = 12 /\ sheetTex.h = 6

(***************************************************************************)
(* The byte cursor of a handler (the take_* readers).  A message is a      *)
(* sequence of bytes; at counts the bytes consumed; ok turns FALSE when a  *)
(* read needs more bytes than remain (TruncatedMessage), and stays FALSE.  *)
(***************************************************************************)
Cursor(data) == [data |-> data, at |-> 1, ok |-> TRUE]

RECURSIVE LittleEndian(_, _, _)
LittleEndian(data, at, n) ==
    IF n = 0 THEN 0 ELSE data[at + 1] + 256 * LittleEndian(data, at + 1, n - 1)

Truncated(c) == [v |-> 0, c |-> [c EXCEPT !.ok = FALSE]]

TakeUint(c, n) ==
    IF c.ok /\ Len(c.data) - c.at >= n
    THEN [v |-> LittleEndian(c.data, c.at, n), c |-> [c EXCEPT !.at = @ + n]]
    ELSE Truncated(c)

\* two's complement: the top byte carries the sign
TakeSint(c, n) ==
    LET low == TakeUint(c, n - 1)
        top == TakeUint(low.c, 1)
        PowTop == LittleEndian([i \in 1..n |-> IF i = n THEN 1 ELSE 0], 0, n)
    IN  IF ~top.c.ok THEN Truncated(c)
        ELSE [v |-> low.v + PowTop * (IF top.v >= 128 THEN top.v - 256 ELSE top.v),
              c |-> top.c]

TakeBytes(c, n) ==
    IF c.ok /\ Len(c.data) - c.at >= n
    THEN [v |-> SubSeq(c.data, c.at + 1, c.at + n), c |-> [c EXCEPT !.at = @ + n]]
    ELSE Truncated(c)

TakeStr(c) == LET l == TakeUint(c, 2) IN TakeBytes(l.c, l.v)

TakeData(c) == LET l == TakeUint(c, 4) IN TakeBytes(l.c, l.v)

TakeFrame(c) ==
    LET a == TakeUint(c, 2)
        b == TakeUint(a.c, 4)
    IN  [v |-> <<a.v, b.v>>, c |-> b.c]

\* Spritesheet.take_tag
TakeTag(c) ==
    LET name == TakeStr(c)
        start == TakeUint(name.c, 2)
        end == TakeUint(start.c, 2)
        ani_dir == TakeUint(end.c, 1)
    IN  [v |-> <<name.v, start.v, end.v, ani_dir.v>>, c |-> ani_dir.c]

TakeOne(kind, c) ==
    CASE kind = "str" -> TakeStr(c)
      [] kind = "data" -> TakeData(c)
      [] kind = "frame" -> TakeFrame(c)
      [] kind = "tag" -> TakeTag(c)

\* [take_x() for _ in range(n)]; the first failing read ends the list
RECURSIVE TakeList(_, _, _)
TakeList(kind, c, n) ==
    IF n = 0 \/ ~c.ok THEN [v |-> <<>>, c |-> c]
    ELSE LET first == TakeOne(kind, c)
             rest == TakeList(kind, first.c, n - 1)
         IN  [v |-> <<first.v>> \o rest.v, c |-> rest.c]

TakeSyncFlags(c) ==
    LET count == TakeUint(c, 1)
        names == TakeList("str", count.c, count.v)
    IN  [v |-> {names.v[i] : i \in DOMAIN names.v}, c |-> names.c]

TakeField(kind, c) ==
    CASE kind = "uint1" -> TakeUint(c, 1)
      [] kind = "uint2" -> TakeUint(c, 2)
      [] kind = "uint4" -> TakeUint(c, 4)
      [] kind = "sint4" -> TakeSint(c, 4)
      [] kind = "flags" -> TakeSyncFlags(c)
      [] OTHER -> TakeOne(kind, c)

(***************************************************************************)
(* The handlers' parse methods.  A parse is a row of reads, each from      *)
(* where the last one stopped; the values go by the names they have in the *)
(* method.  A list is read as many times as a field read before it says.   *)
(* Each parse gives [ok, args]: ok is FALSE when a read ran past the end   *)
(* of the message.                                                         *)
(***************************************************************************)
TagBatch == 91          \* "["
TagImage == 73          \* "I"
TagSpritesheet == 71    \* "G"
TagFrame == 70          \* "F"
TagChangeName == 67     \* "C"
TagNewTexture == 79     \* "O"
TagActiveSprite == 65   \* "A"

\* the ids of the handler classes addon.py registers from handle.py
Registered == {TagBatch, TagImage, TagSpritesheet, TagFrame, TagChangeName,
               TagNewTexture, TagActiveSprite}

Field(name, kind) == [name |-> name, kind |-> kind, count |-> ""]

ListOf(name, kind, count) == [name |-> name, kind |-> kind, count |-> count]

Named(r, name, t) == [c |-> t.c, v |-> (name :> t.v) @@ r.v]

ReadOne(r, f) ==
    IF f.count = "" THEN Named(r, f.name, TakeField(f.kind, r.c))
    ELSE Named(r, f.name, TakeList(f.kind, r.c, r.v[f.count]))

RECURSIVE ReadAll(_, _)
ReadAll(r, format) ==
    IF format = <<>> THEN r ELSE ReadAll(ReadOne(r, Head(format)), Tail(format))

Read(c, format) == ReadAll([c |-> c, v |-> <<>>], format)

BatchArgs(r) == [ok |-> r.c.ok, args |-> [messages |-> r.v.messages]]

BatchFormat == <<Field("count", "uint2"), ListOf("messages", "data", "count")>>

BatchParse(c) == BatchArgs(Read(c, BatchFormat))

ImageArgs(r) ==
    [ok |-> r.c.ok,
     args |-> [size |-> <<r.v.size_w, r.v.size_h>>, frame |-> r.v.frame,
               flags |-> r.v.flags, name |-> r.v.name, data |-> r.v.data]]

ImageFormat ==
    <<Field("size_w", "uint2"), Field("size_h", "uint2"), Field("frame", "uint2"),
      Field("flags", "flags"), Field("name", "str"), Field("data", "data")>>

ImageParse(c) == ImageArgs(Read(c, ImageFormat))

SpritesheetArgs(r) ==
    [ok |-> r.c.ok,
     args |-> [size |-> <<r.v.size_w, r.v.size_h>>, name |-> r.v.name,
               start |-> r.v.start, length |-> r.v.length,
               current_frame |-> r.v.current_frame, frames |-> r.v.frames,
               current_tag |-> r.v.current_tag, tags |-> r.v.tags,
               images |-> r.v.images]]

SpritesheetFormat ==
    <<Field("size_w", "uint2"), Field("size_h", "uint2"), Field("name", "str"),
      Field("start", "sint4"), Field("length", "uint4"),
      Field("current_frame", "uint4"), ListOf("frames", "frame", "length"),
      Field("ntags", "uint4"), Field("current_tag", "str"),
      ListOf("tags", "tag", "ntags"), ListOf("images", "data", "length")>>

SpritesheetParse(c) == SpritesheetArgs(Read(c, SpritesheetFormat))

FrameArgs(r) ==
    [ok |-> r.c.ok,
     args |-> [frame |-> r.v.frame, name |-> r.v.name, start |-> r.v.start,
               frames |-> r.v.frames]]

\* the start read four bytes wide
FrameFormatWideStart ==
    <<Field("frame", "uint4"), Field("name", "str"), Field("start", "uint4"),
      Field("nframes", "uint4"), ListOf("frames", "frame", "nframes")>>

FrameFormat ==
    <<Field("frame", "uint4"), Field("name", "str"), Field("start", "uint2"),
      Field("nframes", "uint4"), ListOf("frames", "frame", "nframes")>>

FrameParse(c) == FrameArgs(Read(c, FrameFormat))

ChangeNameArgs(r) ==
    [ok |-> r.c.ok, args |-> [old_name |-> r.v.old_name, new_name |-> r.v.new_name]]

ChangeNameFormat == <<Field("old_name", "str"), Field("new_name", "str")>>

ChangeNameParse(c) == ChangeNameArgs(Read(c, ChangeNameFormat))

NewTextureArgs(r) == [ok |-> r.c.ok, args |-> [name |-> r.v.name, path |-> r.v.path]]

NewTextureFormat == <<Field("name", "str"), Field("path", "str")>>

NewTextureParse(c) == NewTextureArgs(Read(c, NewTextureFormat))

\* `name and name or None`: the empty string stands for no sprite
ActiveSpriteArgs(r) ==
    [ok |-> r.c.ok,
     args |-> [name |-> IF r.c.ok /\ r.v.name = <<>> THEN NoName ELSE r.v.name]]

ActiveSpriteFormat == <<Field("name", "str")>>

ActiveSpriteParse(c) == ActiveSpriteArgs(Read(c, ActiveSpriteFormat))

Parse(tag, c) ==
    CASE tag = TagBatch -> BatchParse(c)
      [] tag = TagImage -> ImageParse(c)
      [] tag = TagSpritesheet -> SpritesheetParse(c)
      [] tag = TagFrame -> FrameParse(c)
      [] tag = TagChangeName -> ChangeNameParse(c)
      [] tag = TagNewTexture -> NewTextureParse(c)
      [] tag = TagActiveSprite -> ActiveSpriteParse(c)

(***************************************************************************)
(* The writers that mirror the readers, as the editor uses them to build   *)
(* the messages it sends.                                                  *)
(***************************************************************************)
RECURSIVE PutUint(_, _)
PutUint(v, n) == IF n = 0 THEN <<>> ELSE <<v % 256>> \o PutUint(v \div 256, n - 1)

PutStr(str) == PutUint(Len(str), 2) \o str

PutData(bytes) == PutUint(Len(bytes), 4) \o bytes

RECURSIVE PutAll(_)
PutAll(chunks) == IF chunks = <<>> THEN <<>> ELSE Head(chunks) \o PutAll(Tail(chunks))

EncodeBatch(messages) ==
    <<TagBatch>> \o PutUint(Len(messages), 2)
        \o PutAll([i \in DOMAIN messages |-> PutData(messages[i])])

EncodeActiveSprite(name) == <<TagActiveSprite>> \o PutStr(name)

EncodeChangeName(old_name, new_name) ==
    <<TagChangeName>> \o PutStr(old_name) \o PutStr(new_name)

EncodeNewTexture(name, path) == <<TagNewTexture>> \o PutStr(name) \o PutStr(path)

EncodeFrame(frame, name, start, frames) ==
    <<TagFrame>> \o PutUint(frame, 4) \o PutStr(name) \o PutUint(start, 2)
        \o PutUint(Len(frames), 4)
        \o PutAll([i \in DOMAIN frames |->
                    PutUint(frames[i][1], 2) \o PutUint(frames[i][2], 4)])

\* flags: a sequence of names without repetition
EncodeImage(size, frame, flags, name, data) ==
    <<TagImage>> \o PutUint(size[1], 2) \o PutUint(size[2], 2) \o PutUint(frame, 2)
        \o PutUint(Len(flags), 1) \o PutAll([i \in DOMAIN flags |-> PutStr(flags[i])])
        \o PutStr(name) \o PutData(data)

\* start is not negative here
EncodeSpritesheet(size, name, start, current_frame, frames, current_tag, tags, images) ==
    <<TagSpritesheet>> \o PutUint(size[1], 2) \o PutUint(size[2], 2) \o PutStr(name)
        \o PutUint(start, 4) \o PutUint(Len(images), 4) \o PutUint(current_frame, 4)
        \o PutAll([i \in DOMAIN frames |->
                    PutUint(frames[i][1], 2) \o PutUint(frames[i][2], 4)])
        \o PutUint(Len(tags), 4) \o PutStr(current_tag)
        \o PutAll([i \in DOMAIN tags |->
                    PutStr(tags[i][1]) \o PutUint(tags[i][2], 2)
                        \o PutUint(tags[i][3], 2) \o PutUint(tags[i][4], 1)])
        \o PutAll([i \in DOMAIN images |-> PutData(images[i])])

(***************************************************************************)
(* The messages the peers send in the model                                *)
(***************************************************************************)
NameA == <<97>>
NameB == <<98>>
FlagShowUV == <<85, 86>>

MsgActive == EncodeActiveSprite(NameA)
MsgActiveNone == EncodeActiveSprite(<<>>)
MsgFrame == EncodeFrame(1, NameA, 0, << <<0, 100>> >>)
MsgImage == EncodeImage(<<1, 1>>, 0, <<FlagShowUV>>, NameA, <<1, 2, 3, 4>>)
MsgSheet == EncodeSpritesheet(<<1, 1>>, NameA, 0, 0, << <<0, 100>> >>, <<>>,
                              << <<NameB, 0, 0, 0>> >>, << <<9, 9, 9, 9>> >>)
\* a sheet "a" of one 1x1 frame, no tags, whose blob has 3 bytes
MsgBadSheet ==
    <<TagSpritesheet, 1, 0, 1, 0, 1, 0, 97, 0, 0, 0, 0, 1, 0, 0, 0, 0, 0, 0, 0,
      0, 0, 100, 0, 0, 0, 0, 0, 0, 0, 0, 0, 3, 0, 0, 0, 9, 9, 9>>
MsgRename == EncodeChangeName(NameA, NameB)
MsgNewTexture == EncodeNewTexture(NameB, <<>>)
MsgUnknown == <<63, 1, 0, 97>>
\* a Spritesheet message cut off inside its length field
MsgCutSheet == SubSeq(MsgSheet, 1, 13)
\* an ActiveSprite message whose name is shorter than its length prefix
MsgCutActive == <<TagActiveSprite, 5, 0, 97>>

WireMsgs == <<
    MsgFrame,
    MsgActive,
    EncodeBatch(<<MsgUnknown, MsgFrame>>),
    MsgSheet,
    MsgRename,
    MsgUnknown,
    MsgCutSheet,
    EncodeBatch(<<EncodeBatch(<<MsgImage, MsgActiveNone>>), MsgCutActive, MsgNewTexture>>),
    MsgBadSheet >>

\* the messages sent in the specification of the server: a frame flip, a
\* sprite focus and a batch
ServerMsgs == {1, 2, 3}

(***************************************************************************)
(* Handlers.process: the tag byte, the handler lookup and the parse        *)
(***************************************************************************)
Decoded(tag, parsed) ==
    IF ~parsed.ok THEN [kind |-> "truncated", tag |-> tag, args |-> None]
    ELSE [kind |-> "execute", tag |-> tag, args |-> parsed.args]

Dispatch(data) ==
    IF data[1] \notin Registered THEN [kind |-> "unknown", tag |-> data[1], args |-> None]
    ELSE Decoded(data[1], Parse(data[1], Cursor(data)))

\* process reports a message it can not decode and returns
ProcessRaisesKeyError(kind) ==
    CASE kind = "unknown" -> "raise"
      [] kind = "truncated" -> "report"
      [] OTHER -> "execute"

ProcessRaisesTruncated(kind) ==
    CASE kind = "unknown" -> "report"
      [] kind = "truncated" -> "raise"
      [] OTHER -> "execute"

ProcessPolicy(kind) ==
    CASE kind = "unknown" -> "report"
      [] kind = "truncated" -> "report"
      [] OTHER -> "execute"

\* Spritesheet.execute raises before it reaches modify.spritesheet: division
\* by zero for no frames, a shape error for a blob of the wrong size
SheetRaises(args) ==
    \/ args.length = 0
    \/ \E i \in DOMAIN args.images :
          Len(args.images[i]) # args.size[1] * args.size[2] * 4

(***************************************************************************)
(* The server and the session                                              *)
(***************************************************************************)
Init ==
    /\ sheetPc = "idle" /\ sheetMsg = None /\ sheetOp = None
    /\ sheetTex = None /\ sheetView = None /\ sheetReports = 0
    /\ server_up = FALSE /\ ws = 0 /\ wsClosed = [p \in Peers |-> FALSE]
    /\ uv_sync_auto \in BOOLEAN
    /\ watch = 0 /\ running = 0
    /\ active_sprite = NoName
    /\ pc = [p \in Peers |-> "none"]
    /\ inq = [p \in Peers |-> <<>>]
    /\ received = [p \in Peers |-> <<>>]
    /\ tasks = [p \in Peers |-> <<>>]
    /\ events = [p \in Peers |-> <<>>]
    /\ outbox = [p \in Peers |-> 0]
    /\ spinning = 0
    /\ reports = [INFO |-> 0, WARNING |-> 0, ERROR |-> 0]
    /\ LifeIdle /\ UvIdle /\ CodecIdle /\ HostIdle /\ DataIdle /\ NameIdle

(***************************************************************************)
(* UVWatch: the timer that sends the UV map                                *)
(***************************************************************************)
\* UVWatch.timer_callback of the running watch.  asleep: one of the cases
\* that do not imply sending the UVs; changed: `changed and self.last_hash`.
\* Gives the new idle_t and send_pending, and whether uv_send was called.
TimerCallback(idle, pending, asleep, changed) ==
    LET waiting == pending \/ (~asleep /\ changed)
        send == waiting /\ idle + PERIOD >= debounce
    IN  [idle_t |-> IF send THEN 0 ELSE idle + PERIOD,
         send_pending |-> waiting /\ ~send, sent |-> send]

\* the items of SB_State.uv_watch
UvWatchItems == {"ALWAYS", "SHOWN", "NEVER"}

\* "go sleep in several cases that do not imply sending the UVs".  elsewhere:
\* the object is in no mode with UVs, or the setting is SHOWN and the sprite
\* is not open in an image editor
Asleep(elsewhere) ==
    \/ uv_watch = "NEVER"
    \/ elsewhere
    \/ active_sprite = NoName
    \/ "SHOW_UV" \notin sync_flags

\* what a call of timer_callback leaves in the watch
Called(r) ==
    /\ r.sent => Len(uv_sent) < MaxUvSent
    /\ idle_t' = r.idle_t
    /\ send_pending' = r.send_pending
    /\ uv_sent' = IF r.sent THEN Append(uv_sent, now) ELSE uv_sent

\* UVWatch.start: idle_t = 0, send_pending from the flags of the active
\* sprite's image, the timer registered with no first interval, and one call
\* of timer_callback on the spot.  Without an active sprite image nothing is
\* pending and the callback goes to sleep.
UVWatchStart ==
    /\ \E elsewhere, changed \in BOOLEAN :
          Called(TimerCallback(0, active_sprite # NoName /\ sync_flags # {},
                               Asleep(elsewhere), changed))
    /\ timer_at' = now
    /\ UNCHANGED <<now, debounce, uv_watch>>

\* Addon.start_server and Server.start.  The server object is stored before
\* Server.start runs; start raises when the site is not up within the
\* timeout or the port is taken.  The tasks scheduled earlier run first.
StartServer ==
    /\ spinning = 0
    /\ IF server_up
       THEN \* "A server is already created"
            /\ op' = <<"start_server", "already created">>
            /\ UNCHANGED <<server_up, ws, site, bound>>
       ELSE /\ \A i \in DOMAIN stops : stops[i].at # "scheduled"
            /\ server_up' = TRUE
            /\ ws' = 0
            /\ \/ /\ ~bound
                  /\ site' = "started" /\ bound' = TRUE
                  /\ op' = <<"start_server", "FINISHED">>
               \/ \* the port is taken: TCPSite.start raises OSError
                  /\ bound
                  /\ site' = "unstarted"
                  /\ op' = <<"start_server", "OSError">>
                  /\ UNCHANGED bound
               \/ \* the 5 seconds pass before the site listens
                  /\ site' \in {"none", "unstarted"}
                  /\ bound => site' = "none"
                  /\ op' = <<"start_server", "RuntimeError">>
                  /\ UNCHANGED bound
    /\ UNCHANGED <<stops, futures, loop_errors, sync_flags, peer_flags>>
    /\ UNCHANGED <<uvVars, codecVars, hostVars, dataVars, nameVars>>
    /\ UNCHANGED <<sheetVars, wsClosed, uv_sync_auto, watch, running, active_sprite,
                   pc, inq, received, tasks, events, outbox, spinning,
                   reports>>

\* Server._receive from the request up to the receive loop: the new socket
\* replaces Server._ws, the texture list goes out, the UV watch is started.
\* UVWatch.start asserts that no watch is running.
PeerConnect(p) ==
    /\ server_up /\ site = "started" /\ spinning = 0 /\ pc[p] = "none"
    /\ \A q \in Peers : q < p => pc[q] # "none"
    /\ ws' = p
    /\ outbox' = [outbox EXCEPT ![p] = @ + 1]
    /\ peer_flags' = [peer_flags EXCEPT ![p] = sync_flags]
    /\ reports' = [reports EXCEPT !.INFO = @ + 1]
    /\ IF uv_sync_auto
       THEN /\ watch' = p
            /\ IF running = 0
               THEN running' = p /\ pc' = [pc EXCEPT ![p] = "iter"] /\ UVWatchStart
               ELSE UNCHANGED <<running, uvVars>> /\ pc' = [pc EXCEPT ![p] = "crashed"]
       ELSE /\ UNCHANGED <<watch, running, uvVars>>
            /\ pc' = [pc EXCEPT ![p] = "iter"]
    /\ UNCHANGED <<site, bound, stops, futures, loop_errors, sync_flags, op, codecVars, hostVars, dataVars, nameVars>>
    /\ UNCHANGED <<sheetVars, server_up, wsClosed, uv_sync_auto, active_sprite,
                   inq, received, tasks, events, spinning>>

(***************************************************************************)
(* The peers and the host                                                  *)
(***************************************************************************)
Queued(p, type) == {i \in DOMAIN inq[p] : inq[p][i].type = type}

TotalSent ==
    LET n(p) == Len(received[p]) + Cardinality(Queued(p, "BINARY"))
    IN  n(1) + n(2)

PeerOpen(p) == pc[p] = "iter" /\ ~wsClosed[p] /\ Queued(p, "CLOSE") = {}

PeerSend(p, i) ==
    /\ PeerOpen(p) /\ TotalSent < MaxSent
    /\ inq' = [inq EXCEPT ![p] = Append(@, [type |-> "BINARY", msg |-> i])]
    /\ UNCHANGED <<lifeVars, uvVars, codecVars, hostVars, dataVars, nameVars>>
    /\ UNCHANGED <<sheetVars, server_up, ws, wsClosed, uv_sync_auto, watch, running,
                   active_sprite, pc, received, tasks, events, outbox,
                   spinning, reports>>

\* the socket reports an error to the receive loop
WsError(p) ==
    /\ PeerOpen(p) /\ reports.ERROR = 0 /\ \A q \in Peers : Queued(q, "ERROR") = {}
    /\ inq' = [inq EXCEPT ![p] = Append(@, [type |-> "ERROR", msg |-> 0])]
    /\ UNCHANGED <<lifeVars, uvVars, codecVars, hostVars, dataVars, nameVars>>
    /\ UNCHANGED <<sheetVars, server_up, ws, wsClosed, uv_sync_auto, watch, running,
                   active_sprite, pc, received, tasks, events, outbox,
                   spinning, reports>>

PeerClose(p) ==
    /\ PeerOpen(p)
    /\ inq' = [inq EXCEPT ![p] = Append(@, [type |-> "CLOSE", msg |-> 0])]
    /\ UNCHANGED <<lifeVars, uvVars, codecVars, hostVars, dataVars, nameVars>>
    /\ UNCHANGED <<sheetVars, server_up, ws, wsClosed, uv_sync_auto, watch, running,
                   active_sprite, pc, received, tasks, events, outbox,
                   spinning, reports>>

(***************************************************************************)
(* Server._receive: the receive loop                                       *)
(***************************************************************************)
\* `await addon.handlers.process(msg.data)`: the loop asks for the next
\* message when the process call of the last one has returned
CanReceiveNotAwaited(p) == TRUE

CanReceive(p) == tasks[p] = <<>>

Receive(p) ==
    /\ spinning = 0 /\ pc[p] = "iter" /\ inq[p] # <<>> /\ CanReceive(p)
    /\ LET msg == Head(inq[p])
       IN  /\ inq' = [inq EXCEPT ![p] = Tail(@)]
           /\ CASE msg.type = "BINARY" ->
                    /\ received' = [received EXCEPT ![p] = Append(@, msg.msg)]
                    /\ tasks' = [tasks EXCEPT ![p] =
                            Append(@, [k |-> Len(received[p]) + 1,
                                       stack |-> << <<WireMsgs[msg.msg]>> >>])]
                    /\ UNCHANGED <<pc, wsClosed, watch, running, reports>>
                [] msg.type = "ERROR" ->
                    /\ reports' = [reports EXCEPT !.ERROR = @ + 1]
                    /\ UNCHANGED <<pc, wsClosed, watch, running, received, tasks>>
                [] msg.type = "CLOSE" ->
                    \* client disconnected; UVWatch.stop asserts it is the running one
                    /\ wsClosed' = [wsClosed EXCEPT ![p] = TRUE]
                    /\ IF watch # 0 /\ watch # running
                       THEN /\ pc' = [pc EXCEPT ![p] = "crashed"]
                            /\ UNCHANGED <<watch, running, reports>>
                       ELSE /\ pc' = [pc EXCEPT ![p] = "done"]
                            /\ IF watch # 0
                               THEN watch' = 0 /\ running' = 0
                               ELSE UNCHANGED <<watch, running>>
                            /\ reports' = [reports EXCEPT !.INFO = @ + 1]
                    /\ UNCHANGED <<received, tasks>>
    /\ UNCHANGED <<lifeVars, uvVars, codecVars, hostVars, dataVars, nameVars>>
    /\ UNCHANGED <<sheetVars, server_up, ws, uv_sync_auto, active_sprite,
                   events, outbox, spinning>>

(***************************************************************************)
(* Handlers.process and the handlers' execute methods.  A process call is  *)
(* a stack of message lists: the message itself at the bottom, and one     *)
(* list per Batch.execute whose loop is running.  One step handles the     *)
(* next message of the innermost list; the awaits of process and of        *)
(* Batch.execute are the points where other coroutines may run.            *)
(***************************************************************************)
RECURSIVE Normalize(_)
Normalize(stack) ==
    IF stack # <<>> /\ Head(stack) = <<>> THEN Normalize(Tail(stack)) ELSE stack

\* the process calls of p after call t went on to stack; a call whose lists
\* are all used up has returned
Advance(p, t, stack) ==
    LET st == Normalize(stack)
    IN  IF st = <<>>
        THEN [i \in 1..(Len(tasks[p]) - 1) |->
                IF i < t THEN tasks[p][i] ELSE tasks[p][i + 1]]
        ELSE [tasks[p] EXCEPT ![t].stack = st]

\* the sub-messages scheduled instead of awaited: they run when the list
\* that holds the batch is used up
BatchExecuteNotAwaited(messages, after) ==
    IF Head(after) = <<>> THEN <<messages>> \o Tail(after)
    ELSE <<Head(after) \o messages>> \o Tail(after)

\* Batch.execute: a loop over the sub-messages, each awaited, before the
\* messages that follow the batch
BatchExecute(messages, after) == <<messages>> \o after

\* bpy.ops.pribambase.send_texture_list: to the socket Server._ws, if connected
TextureListSent ==
    IF server_up /\ ws # 0 /\ ~wsClosed[ws]
    THEN [outbox EXCEPT ![ws] = @ + 1]
    ELSE outbox

\* the message call t of p handles next
NextOf(p, t) == Head(Head(tasks[p][t].stack))

\* the lists of call t once their first message is taken
After(p, t) == <<Tail(Head(tasks[p][t].stack))>> \o Tail(tasks[p][t].stack)

Ev(p, t, d, res) ==
    [k |-> tasks[p][t].k, ev |-> d.kind, tag |-> d.tag, args |-> d.args, res |-> res]

Done(p, t, d, res) ==
    /\ tasks' = [tasks EXCEPT ![p] = Advance(p, t, After(p, t))]
    /\ events' = [events EXCEPT ![p] = Append(@, Ev(p, t, d, res))]
    /\ UNCHANGED pc

\* nothing between the handler and aiohttp catches an exception
Raise(p, t, d) ==
    /\ tasks' = [tasks EXCEPT ![p] = <<>>]
    /\ events' = [events EXCEPT ![p] = Append(@, Ev(p, t, d, "raised"))]
    /\ pc' = [pc EXCEPT ![p] = "crashed"]

\* `if not bpy.context.window_manager.is_interface_locked: ... else: report`
SkippedIfLocked(p, t, d, is_interface_locked) ==
    IF is_interface_locked
    THEN Done(p, t, d, "skipped") /\ reports' = [reports EXCEPT !.WARNING = @ + 1]
    ELSE Done(p, t, d, "applied") /\ UNCHANGED reports

\* what process does with the decoded message d, and the handler's execute
Execute(p, t, d, is_interface_locked) ==
    CASE ProcessPolicy(d.kind) = "report" ->
            /\ Done(p, t, d, "reported")
            /\ reports' = [reports EXCEPT !.ERROR = @ + 1]
            /\ UNCHANGED <<active_sprite, outbox, spinning>>
      [] ProcessPolicy(d.kind) = "raise" ->
            /\ Raise(p, t, d)
            /\ UNCHANGED <<reports, active_sprite, outbox, spinning>>
      [] ProcessPolicy(d.kind) = "execute" /\ d.tag = TagBatch ->
            /\ tasks' = [tasks EXCEPT ![p] =
                            Advance(p, t, BatchExecute(d.args.messages, After(p, t)))]
            /\ UNCHANGED <<events, pc, reports, active_sprite, outbox, spinning>>
      [] ProcessPolicy(d.kind) = "execute" /\ d.tag = TagActiveSprite ->
            \* addon.watch.resend() is not a method of UVWatch
            /\ active_sprite' = d.args.name
            /\ IF watch # 0 THEN Raise(p, t, d) ELSE Done(p, t, d, "applied")
            /\ UNCHANGED <<reports, outbox, spinning>>
      [] ProcessPolicy(d.kind) = "execute"
            /\ d.tag \in {TagImage, TagFrame, TagNewTexture} ->
            /\ SkippedIfLocked(p, t, d, is_interface_locked)
            /\ UNCHANGED <<active_sprite, outbox, spinning>>
      [] ProcessPolicy(d.kind) = "execute" /\ d.tag = TagSpritesheet ->
            /\ IF SheetRaises(d.args)
               THEN Raise(p, t, d) /\ UNCHANGED reports
               ELSE SkippedIfLocked(p, t, d, is_interface_locked)
            /\ UNCHANGED <<active_sprite, outbox, spinning>>
      [] ProcessPolicy(d.kind) = "execute" /\ d.tag = TagChangeName ->
            IF is_interface_locked
            THEN \* the loop on the locked UI: asyncio.sleep is not awaited
                 /\ spinning' = p
                 /\ reports' = [reports EXCEPT !.WARNING = @ + 1]
                 /\ UNCHANGED <<tasks, events, pc, active_sprite, outbox>>
            ELSE /\ Done(p, t, d, "applied")
                 /\ outbox' = TextureListSent
                 /\ UNCHANGED <<reports, active_sprite, spinning>>

\* the handlers whose execute depends on the lock of the UI
LockTags == {TagImage, TagSpritesheet, TagFrame, TagNewTexture, TagChangeName}

\* the lock of the UI at the moment such a handler is executed
LockSeen(d, is_interface_locked) ==
    interface_locked' = IF d.kind = "execute" /\ d.tag \in LockTags
                        THEN is_interface_locked ELSE interface_locked

ProcessStep(p) ==
    /\ spinning = 0 /\ pc[p] = "iter" /\ tasks[p] # <<>>
    /\ \E t \in DOMAIN tasks[p], is_interface_locked \in BOOLEAN :
          /\ Execute(p, t, Dispatch(NextOf(p, t)), is_interface_locked)
          /\ LockSeen(Dispatch(NextOf(p, t)), is_interface_locked)
    /\ UNCHANGED <<lifeVars, uvVars, codecVars, dataVars, nameVars>>
    /\ UNCHANGED <<sheetVars, server_up, ws, wsClosed, uv_sync_auto, watch, running,
                   inq, received>>

\* the rename, once the UI is not locked
Renamed(p, t, d) ==
    /\ d.kind = "execute" /\ d.tag = TagChangeName
    /\ Done(p, t, d, "applied")
    /\ outbox' = TextureListSent
    /\ spinning' = 0
    /\ UNCHANGED reports

\* ChangeName.execute in its loop: one more turn while the UI is locked, the
\* rename once it is not
ChangeNameLoop(p) ==
    /\ spinning = p
    /\ \E is_interface_locked \in BOOLEAN :
       /\ interface_locked' = is_interface_locked
       /\ IF is_interface_locked
          THEN /\ reports.WARNING < MaxReports
               /\ reports' = [reports EXCEPT !.WARNING = @ + 1]
               /\ UNCHANGED <<tasks, events, outbox, spinning, pc>>
          ELSE \E t \in DOMAIN tasks[p] : Renamed(p, t, Dispatch(NextOf(p, t)))
    /\ UNCHANGED <<lifeVars, uvVars, codecVars, dataVars, nameVars>>
    /\ UNCHANGED <<sheetVars, server_up, ws, wsClosed, uv_sync_auto, watch, running,
                   active_sprite, inq, received>>

Next ==
    \/ StartServer
    \/ \E p \in Peers : PeerConnect(p)
    \/ \E p \in Peers, i \in ServerMsgs : PeerSend(p, i)
    \/ \E p \in Peers : WsError(p)
    \/ \E p \in Peers : PeerClose(p)
    \/ \E p \in Peers : Receive(p)
    \/ \E p \in Peers : ProcessStep(p)

Spec == Init /\ [][Next]_vars

(***************************************************************************)
(* The dispatcher on one connection: peer 1 is connected and sends any of  *)
(* the messages of WireMsgs.                                               *)
(***************************************************************************)
DispatchInit ==
    /\ sheetPc = "idle" /\ sheetMsg = None /\ sheetOp = None
    /\ sheetTex = None /\ sheetView = None /\ sheetReports = 0
    /\ server_up = TRUE /\ ws = 1 /\ wsClosed = [p \in Peers |-> FALSE]
    /\ uv_sync_auto \in BOOLEAN
    /\ watch = (IF uv_sync_auto THEN 1 ELSE 0)
    /\ running = watch
    /\ active_sprite = NoName
    /\ pc = [p \in Peers |-> IF p = 1 THEN "iter" ELSE "none"]
    /\ inq = [p \in Peers |-> <<>>]
    /\ received = [p \in Peers |-> <<>>]
    /\ tasks = [p \in Peers |-> <<>>]
    /\ events = [p \in Peers |-> <<>>]
    /\ outbox = [p \in Peers |-> IF p = 1 THEN 1 ELSE 0]
    /\ spinning = 0
    /\ reports = [INFO |-> 1, WARNING |-> 0, ERROR |-> 0]
    /\ site = "started" /\ bound = TRUE /\ stops = <<>> /\ futures = <<>>
    /\ loop_errors = 0 /\ sync_flags = {} /\ op = <<"start_server", "FINISHED">>
    /\ peer_flags = [p \in Peers |-> IF p = 1 THEN {} ELSE None]
    /\ now = 0 /\ timer_at = (IF uv_sync_auto THEN 0 ELSE -1)
    /\ idle_t = (IF uv_sync_auto THEN PERIOD ELSE 0)
    /\ send_pending = FALSE /\ uv_sent = <<>> /\ debounce = DefaultDebounce
    /\ uv_watch = "ALWAYS"
    /\ CodecIdle /\ HostIdle /\ DataIdle /\ NameIdle

DispatchNext ==
    \/ \E i \in DOMAIN WireMsgs : PeerSend(1, i)
    \/ Receive(1)
    \/ ProcessStep(1)
    \/ ChangeNameLoop(1)

DispatchSpec == DispatchInit /\ [][DispatchNext]_vars

(***************************************************************************)
(* Stopping the server, and the sends of the operators                     *)
(***************************************************************************)
\* the peers whose connection the server of addon._server accepted
Connections ==
    {p \in Peers : pc[p] = "iter" /\ \A i \in DOMAIN stops : p \notin stops[i].conns}

\* Addon.stop_server and Server.stop: _stop_a is scheduled with
\* ensure_future, nothing of it has run when stop returns
StopServer ==
    /\ server_up /\ spinning = 0 /\ Len(stops) < MaxStops
    /\ stops' = Append(stops, [ws |-> ws, site |-> site, conns |-> Connections,
                               at |-> "scheduled"])
    /\ server_up' = FALSE /\ ws' = 0 /\ site' = "none"
    /\ op' = <<"stop_server", "FINISHED">>
    /\ UNCHANGED <<bound, futures, loop_errors, sync_flags, peer_flags>>
    /\ UNCHANGED <<sheetVars, uvVars, codecVars, hostVars, dataVars, nameVars, wsClosed, uv_sync_auto, watch, running,
                   active_sprite, pc, inq, received, tasks, events, outbox, spinning,
                   reports>>

\* the sockets of the peers in ps closed from this side: what was sent and
\* not received is dropped, the receive loop of the peer sees the end
ClosedBy(ps) ==
    /\ wsClosed' = [p \in Peers |-> wsClosed[p] \/ p \in ps]
    /\ inq' = [p \in Peers |->
                IF p \in ps /\ pc[p] = "iter" /\ ~wsClosed[p]
                THEN <<[type |-> "CLOSE", msg |-> 0]>> ELSE inq[p]]

Without(seq, i) == [j \in 1..(Len(seq) - 1) |-> IF j < i THEN seq[j] ELSE seq[j + 1]]

\* `await self._site.stop()` of stop task i: a site that listens lets go of
\* the port, a site that never listened is only taken off its runner, and
\* with no site (self._site is None) the call raises
SiteStop(i) ==
    IF stops[i].site # "none"
    THEN /\ bound' = (bound /\ stops[i].site # "started")
         /\ stops' = [stops EXCEPT ![i].at = "site_stop"]
         /\ UNCHANGED loop_errors
    ELSE /\ loop_errors < MaxLoopErrors
         /\ loop_errors' = loop_errors + 1
         /\ stops' = Without(stops, i)
         /\ UNCHANGED bound

\* _stop_a of stop task i, from one await to the next
StopStep(i) ==
    /\ spinning = 0
    /\ CASE stops[i].at = "scheduled" /\ stops[i].ws # 0 /\ ~wsClosed[stops[i].ws] ->
                /\ ClosedBy({stops[i].ws})
                /\ stops' = [stops EXCEPT ![i].at = "ws_close"]
                /\ UNCHANGED <<bound, loop_errors, active_sprite>>
         [] stops[i].at = "scheduled" /\ ~(stops[i].ws # 0 /\ ~wsClosed[stops[i].ws]) ->
                SiteStop(i) /\ UNCHANGED <<wsClosed, inq, active_sprite>>
         [] stops[i].at = "ws_close" ->
                SiteStop(i) /\ UNCHANGED <<wsClosed, inq, active_sprite>>
         [] stops[i].at = "site_stop" ->
                /\ stops' = [stops EXCEPT ![i].at = "cleanup"]
                /\ UNCHANGED <<bound, loop_errors, wsClosed, inq, active_sprite>>
         [] stops[i].at = "cleanup" ->
                /\ ClosedBy(stops[i].conns)
                /\ stops' = [stops EXCEPT ![i].at = "shutdown"]
                /\ UNCHANGED <<bound, loop_errors, active_sprite>>
         [] stops[i].at = "shutdown" ->
                /\ active_sprite' = NoName
                /\ stops' = Without(stops, i)
                /\ UNCHANGED <<bound, loop_errors, wsClosed, inq>>
    /\ UNCHANGED <<site, futures, sync_flags, peer_flags, op>>
    /\ UNCHANGED <<sheetVars, uvVars, codecVars, hostVars, dataVars, nameVars, server_up, ws, uv_sync_auto, watch,
                   running, pc, received, tasks, events, outbox, spinning, reports>>

\* Server.send: a future for send_bytes whenever _ws is set
Send(flags) ==
    IF ws # 0
    THEN /\ outbox[ws] + Len(futures) < MaxOutbox
         /\ futures' = Append(futures, [ws |-> ws, flags |-> flags])
    ELSE UNCHANGED futures

\* a caller that looks at addon.server_up only, as the handler of the
\* depsgraph update does with the texture list
ServerSend ==
    /\ server_up /\ spinning = 0
    /\ Send(sync_flags)
    /\ op' = <<"send", "FINISHED">>
    /\ UNCHANGED <<site, bound, stops, loop_errors, sync_flags, peer_flags>>
    /\ UNCHANGED <<sheetVars, serverVars, uvVars, codecVars, hostVars, dataVars, nameVars>>

\* the send_bytes future runs: on a closed socket it raises
SendStep ==
    /\ futures # <<>> /\ spinning = 0
    /\ futures' = Tail(futures)
    /\ IF wsClosed[Head(futures).ws]
       THEN /\ loop_errors < MaxLoopErrors
            /\ loop_errors' = loop_errors + 1
            /\ UNCHANGED <<outbox, peer_flags>>
       ELSE /\ outbox' = [outbox EXCEPT ![Head(futures).ws] = @ + 1]
            /\ peer_flags' = [peer_flags EXCEPT ![Head(futures).ws] = Head(futures).flags]
            /\ UNCHANGED loop_errors
    /\ UNCHANGED <<site, bound, stops, sync_flags, op>>
    /\ UNCHANGED <<sheetVars, uvVars, codecVars, hostVars, dataVars, nameVars, server_up, ws, wsClosed, uv_sync_auto,
                   watch, running, active_sprite, pc, inq, received, tasks, events,
                   spinning, reports>>

\* SB_OT_sprite_make_animated.execute: the flag is set, then
\* addon.server.send is called, addon.server being None without a server
SpriteMakeAnimated ==
    /\ "SHEET" \notin sync_flags /\ spinning = 0
    /\ sync_flags' = sync_flags \cup {"SHEET"}
    /\ IF server_up
       THEN Send(sync_flags') /\ op' = <<"sprite_make_animated", "FINISHED">>
       ELSE UNCHANGED futures /\ op' = <<"sprite_make_animated", "raised">>
    /\ UNCHANGED <<site, bound, stops, loop_errors, peer_flags>>
    /\ UNCHANGED <<sheetVars, serverVars, uvVars, codecVars, hostVars, dataVars, nameVars>>

\* the server through its life: started, connected to, stopped, started again
LifeNext ==
    \/ StartServer
    \/ StopServer
    \/ \E i \in DOMAIN stops : StopStep(i)
    \/ \E p \in Peers : PeerConnect(p)
    \/ \E p \in Peers : PeerSend(p, 2)
    \/ \E p \in Peers : PeerClose(p)
    \/ \E p \in Peers : Receive(p)
    \/ \E p \in Peers : ProcessStep(p)
    \/ ServerSend
    \/ SendStep
    \/ SpriteMakeAnimated

\* no server yet, and the UV watch not set to start with a connection
LifeInit == Init /\ uv_sync_auto = FALSE

LifeSpec == LifeInit /\ [][LifeNext]_vars

(***************************************************************************)
(* A rename on a locked UI, with sends of the host waiting on the event    *)
(* loop: what can run while ChangeName.execute is in its loop              *)
(***************************************************************************)
RenameNext ==
    \/ PeerSend(1, 5)
    \/ Receive(1)
    \/ ProcessStep(1)
    \/ ChangeNameLoop(1)
    \/ ServerSend
    \/ SendStep

RenameSpec == DispatchInit /\ [][RenameNext]_vars

(***************************************************************************)
(* The updates of modify.py: modify.image, modify.spritesheet and          *)
(* modify.frame hand their arguments to an operator that runs once on a    *)
(* modal timer; its modal_execute changes the images and the actions.      *)
(* An image or an action is known by its identity, never given twice.      *)
(***************************************************************************)
MaxCalls == 2       \* modify.image, modify.spritesheet, modify.frame calls in one run

\* the name of the sheet image of the image called name
SheetName(name) == name \o <<" *Sheet*">>

\* bpy.data.images.new(name, w, h), packed by util.pack_empty_png: with no
\* source and no file its sync name is its name
ImagesNew(name, size) ==
    [name |-> name, sync_name |-> name, size |-> size, frame |-> 0, flags |-> {},
     pixels |-> 0, needs_save |-> TRUE, sheet |-> 0, is_sheet |-> FALSE,
     origin |-> 0, animation_length |-> 0, sheet_size |-> <<0, 0>>,
     sheet_start |-> 0]

\* an image opened from the sprite file src
SpriteImage(name, src, flags) ==
    [ImagesNew(name, <<1, 1>>) EXCEPT !.sync_name = src, !.flags = flags,
                                      !.needs_save = FALSE]

\* the collection with one more member
With(coll, id, member) ==
    [i \in DOMAIN coll \cup {id} |-> IF i = id THEN member ELSE coll[i]]

\* the first of a set of identities, in the order of the collection
First(ids) == CHOOSE i \in ids : \A j \in ids : i <= j

\* an update that takes any image when none has the name
FoundOrAny(imgs, name) ==
    IF \E i \in DOMAIN imgs : imgs[i].sync_name = name
    THEN {i \in DOMAIN imgs : imgs[i].sync_name = name}
    ELSE DOMAIN imgs

\* the images `name == img.sb_props.sync_name` holds for
Found(imgs, name) == {i \in DOMAIN imgs : imgs[i].sync_name = name}

\* `addon.watch.resend()`, which no UVWatch has, is called for this image
Resends(img, args) ==
    "SHOW_UV" \notin img.flags /\ "SHOW_UV" \in args.flags /\ watch # 0

\* the first image whose update raises, or 0
FirstResend(imgs, args) ==
    IF \E i \in Found(imgs, args.name) : Resends(imgs[i], args)
    THEN First({i \in Found(imgs, args.name) : Resends(imgs[i], args)})
    ELSE 0

\* the body of the loop of SB_OT_update_image.modal_execute, whole or up to
\* the call of resend
ImageUpdated(img, args, whole) ==
    [img EXCEPT !.size = args.size,
                !.frame = IF args.frame # -1 THEN args.frame ELSE @,
                !.flags = args.flags,
                !.pixels = IF whole THEN args.pixels ELSE @,
                !.needs_save = IF whole THEN FALSE ELSE @]

\* SB_OT_update_image.modal_execute: r is the image its loop raises on, or 0
UpdateImageLoop(imgs, args, r) ==
    [i \in DOMAIN imgs |->
        IF i \in Found(imgs, args.name) /\ (r = 0 \/ i <= r)
        THEN ImageUpdated(imgs[i], args, r = 0 \/ i < r)
        ELSE imgs[i]]

\* the names of the tags of a Spritesheet message
TagNames(tags) == {tags[k][1] : k \in DOMAIN tags}

\* `next((t for t in tags if t[0] == current_tag))`
TagNamed(tags, name) ==
    tags[First({k \in DOMAIN tags : tags[k][1] = name})]

\* update_actions raises StopIteration: the current tag is no tag of the message
NoCurrentTag(args) ==
    args.current_tag # "" /\ args.current_tag \notin TagNames(args.tags)

\* tag_editor, tag_frame and the tags, as update_actions goes through them
ActionTags(args) ==
    << IF args.current_tag # ""
       THEN <<"__loop__">> \o Tail(TagNamed(args.tags, args.current_tag))
       ELSE <<"__loop__", 0, Len(args.frames) - 1, 0>>,
       <<"__view__", args.current_frame, args.current_frame, 0>> >>
    \o args.tags

\* the actions update_actions removes: those of the sprite whose tag is not
\* in tag_names
Purged(acts, img, args) ==
    {a \in DOMAIN acts :
        acts[a].sprite = img /\ acts[a].tag \notin ({"__loop__"} \cup TagNames(args.tags))}

\* the collection without some of its members
Less(coll, ids) == [i \in DOMAIN coll \ ids |-> coll[i]]

\* the key frames update_actions gives the action of a tag
SheetKeys(tag, args) ==
    [by |-> "spritesheet", first |-> tag[2], last |-> tag[3], dir |-> tag[4],
     start |-> args.start, frame |-> -1, length |-> Len(args.frames)]

\* the loop of update_actions over the tags: each finds its action or makes it
RECURSIVE ActionsUpdated(_, _, _, _, _)
ActionsUpdated(acts, next, img, tags, args) ==
    IF tags = <<>> THEN [actions |-> acts, next_action |-> next]
    ELSE IF \E a \in DOMAIN acts : acts[a].sprite = img /\ acts[a].tag = Head(tags)[1]
    THEN ActionsUpdated(
            [acts EXCEPT ![First({a \in DOMAIN acts :
                                    acts[a].sprite = img /\ acts[a].tag = Head(tags)[1]})]
                            .keys = SheetKeys(Head(tags), args)],
            next, img, Tail(tags), args)
    ELSE ActionsUpdated(
            With(acts, next, [sprite |-> img, tag |-> Head(tags)[1],
                              keys |-> SheetKeys(Head(tags), args)]),
            next + 1, img, Tail(tags), args)

\* SB_OT_update_spritesheet.update_actions for the image img
UpdateActions(acts, next, img, args) ==
    ActionsUpdated(Less(acts, Purged(acts, img, args)), next, img, ActionTags(args), args)

\* the image with the sheet properties modal_execute sets
SheetProps(sheet, img, args) ==
    [sheet EXCEPT !.is_sheet = TRUE, !.origin = img,
                  !.animation_length = Len(args.frames),
                  !.sheet_size = args.count, !.sheet_start = args.start]

\* the size of the atlas
TexSizeOf(args) ==
    <<(args.size[1] + 2) * args.count[1], (args.size[2] + 2) * args.count[2]>>

\* the sheet image of img: the one it points to, else the image of the sheet
\* name, made if there is none
SheetId(imgs, next, img) ==
    IF imgs[img].sheet # 0 THEN imgs[img].sheet
    ELSE IF \E j \in DOMAIN imgs : imgs[j].name = SheetName(imgs[img].name)
    THEN First({j \in DOMAIN imgs : imgs[j].name = SheetName(imgs[img].name)})
    ELSE next

\* the images once img has its sheet image, with the sheet properties
WithSheet(imgs, next, img, args) ==
    [i \in DOMAIN imgs \cup {SheetId(imgs, next, img)} |->
        IF i = SheetId(imgs, next, img)
        THEN SheetProps(IF i \in DOMAIN imgs THEN imgs[i]
                        ELSE ImagesNew(SheetName(imgs[img].name), TexSizeOf(args)),
                        img, args)
        ELSE IF i = img THEN [imgs[i] EXCEPT !.sheet = SheetId(imgs, next, img)]
        ELSE imgs[i]]

\* the arguments of the two SB_OT_update_image.modal_execute calls
TexArgs(imgs, sheet, args) ==
    [size |-> TexSizeOf(args), name |-> imgs[sheet].name, frame |-> -1,
     flags |-> {}, pixels |-> args.pixels]

ViewArgs(imgs, img, args) ==
    [size |-> args.size, name |-> args.name, frame |-> args.current_frame,
     flags |-> imgs[img].flags \cup {"SHEET"}, pixels |-> args.pixels]

\* what is known of bpy.data and of the globals while modal_execute runs
DataNow ==
    [images |-> data_images, next_image |-> next_image,
     actions |-> data_actions, next_action |-> next_action,
     image_args |-> update_image_args,
     spritesheet_args |-> update_spritesheet_args,
     frame_args |-> update_frame_args, raised |-> FALSE]

\* the view image of the spritesheet update: the last step of the loop body
ViewUpdated(st, img, args) ==
    [st EXCEPT
        !.images = UpdateImageLoop(st.images, ViewArgs(st.images, img, args),
                        FirstResend(st.images, ViewArgs(st.images, img, args))),
        !.raised = FirstResend(st.images, ViewArgs(st.images, img, args)) # 0]

\* the atlas stored in the sheet image (flags set() never call resend), the
\* globals of update_image cleared, then the view image
TexUpdated(st, img, args) ==
    ViewUpdated(
        [st EXCEPT
            !.images = UpdateImageLoop(st.images,
                            TexArgs(st.images, st.images[img].sheet, args), 0),
            !.image_args = None],
        img, args)

WithActions(st, updated) ==
    [st EXCEPT !.actions = updated.actions, !.next_action = updated.next_action]

\* the actions of img updated, unless update_actions raises
SheetActions(st, img, args) ==
    IF NoCurrentTag(args) THEN [st EXCEPT !.raised = TRUE]
    ELSE TexUpdated(
            WithActions(st, UpdateActions(st.actions, st.next_action, img, args)),
            img, args)

\* the body of the loop of SB_OT_update_spritesheet.modal_execute for img
SheetUpdated(st, img, args) ==
    SheetActions(
        [st EXCEPT
            !.images = WithSheet(st.images, st.next_image, img, args),
            !.next_image = IF SheetId(st.images, st.next_image, img) = st.next_image
                           THEN @ + 1 ELSE @],
        img, args)

\* the loop of SB_OT_update_spritesheet.modal_execute over the images found
RECURSIVE SheetLoop(_, _, _)
SheetLoop(st, found, args) ==
    IF found = {} \/ st.raised THEN st
    ELSE SheetLoop(SheetUpdated(st, First(found), args), found \ {First(found)}, args)

\* the clean up after the loop, not reached when the loop raised
SheetCleanUp(st) ==
    IF st.raised THEN st ELSE [st EXCEPT !.spritesheet_args = None]

\* the key frames SB_OT_update_frame.modal_execute gives an action
FrameKeys(act, args) ==
    IF act.tag = "__view__"
    THEN [act.keys EXCEPT !.by = "frame", !.frame = args.frame]
    ELSE IF act.tag = "__loop__"
    THEN [act.keys EXCEPT !.by = "frame", !.start = args.start,
                          !.length = Len(args.frames)]
    ELSE act.keys

\* SB_OT_update_frame.modal_execute for the image img
FrameUpdated(acts, img, args) ==
    [a \in DOMAIN acts |->
        IF acts[a].sprite = img
        THEN [acts[a] EXCEPT !.keys = FrameKeys(acts[a], args)]
        ELSE acts[a]]

\* modal_execute of the operator with self.args = args
ModalExecute(kind, args, st) ==
    CASE kind = "image" ->
            IF FirstResend(st.images, args) # 0
            THEN [st EXCEPT !.images = UpdateImageLoop(st.images, args,
                                            FirstResend(st.images, args)),
                            !.raised = TRUE]
            ELSE [st EXCEPT !.images = UpdateImageLoop(st.images, args, 0),
                            !.image_args = None]
      [] kind = "spritesheet" ->
            SheetCleanUp(SheetLoop(st, Found(st.images, args.name), args))
      [] kind = "frame" ->
            IF Found(st.images, args.name) = {} THEN st
            ELSE [st EXCEPT
                    !.actions = FrameUpdated(st.actions,
                                    First(Found(st.images, args.name)), args),
                    !.frame_args = None]

\* the run of modal_execute for the call of serial number call: st is what
\* it leaves
Run(kind, args, call, st) ==
    /\ data_images' = st.images
    /\ next_image' = st.next_image
    /\ data_actions' = st.actions
    /\ next_action' = st.next_action
    /\ update_image_args' = st.image_args
    /\ update_spritesheet_args' = st.spritesheet_args
    /\ update_frame_args' = st.frame_args
    /\ runs' = Append(runs, [op |-> kind, args |-> args, call |-> call,
                             raised |-> st.raised])

\* the global a modify function stores its arguments in
ArgsSet(kind, args) ==
    [DataNow EXCEPT
        !.image_args = IF kind = "image" THEN args ELSE @,
        !.spritesheet_args = IF kind = "spritesheet" THEN args ELSE @,
        !.frame_args = IF kind = "frame" THEN args ELSE @]

\* the names a peer gives in its updates, and the arguments of the updates
UpdateNames == {<<"a.ase">>, <<"b.ase">>}

ImageUpdates ==
    [size : {<<2, 1>>}, name : UpdateNames, frame : {1},
     flags : {{}, {"SHOW_UV"}}, pixels : {1}]

SpritesheetUpdates ==
    [size : {<<1, 1>>}, count : {<<2, 1>>}, name : UpdateNames, start : {0},
     frames : {<<<<0, 100>>, <<1, 100>>>>},
     tags : {<<>>, <<<<"walk", 0, 1, 0>>>>},
     current_frame : {0}, current_tag : {"", "walk"}, pixels : {2}]

FrameUpdates ==
    [name : UpdateNames, frame : {1}, start : {0},
     frames : {<<<<0, 100>>, <<1, 100>>>>}]

Updates(kind) ==
    CASE kind = "image" -> ImageUpdates
      [] kind = "spritesheet" -> SpritesheetUpdates
      [] kind = "frame" -> FrameUpdates

\* modify.image, modify.spritesheet or modify.frame called by a handler: the
\* arguments go to the global, bpy.ops runs execute, which takes them and
\* either adds a modal handler with a timer or runs modal_execute itself
Modify(kind) ==
    /\ Len(calls) < MaxCalls
    /\ \E args \in Updates(kind) :
          /\ calls' = Append(calls, [op |-> kind, args |-> args])
          /\ IF ~skip_modal
             THEN /\ modal_handlers' =
                        <<[op |-> kind, args |-> args, call |-> Len(calls) + 1]>>
                            \o modal_handlers
                  /\ update_image_args' = ArgsSet(kind, args).image_args
                  /\ update_spritesheet_args' = ArgsSet(kind, args).spritesheet_args
                  /\ update_frame_args' = ArgsSet(kind, args).frame_args
                  /\ UNCHANGED <<data_images, next_image, data_actions, next_action, runs>>
             ELSE /\ Run(kind, args, Len(calls) + 1,
                         ModalExecute(kind, args, ArgsSet(kind, args)))
                  /\ UNCHANGED modal_handlers
    /\ UNCHANGED skip_modal
    /\ UNCHANGED <<sheetVars, serverVars, lifeVars, uvVars, codecVars, hostVars, nameVars>>

\* the handlers without the one at position k
Finished(k) ==
    [i \in 1..(Len(modal_handlers) - 1) |->
        IF i < k THEN modal_handlers[i] ELSE modal_handlers[i + 1]]

\* ModalExecuteMixin.modal on an event of type TIMER: the timer is removed,
\* modal_execute runs, the operator is finished
TimerEvent(k) ==
    /\ k \in DOMAIN modal_handlers
    /\ Run(modal_handlers[k].op, modal_handlers[k].args, modal_handlers[k].call,
           ModalExecute(modal_handlers[k].op, modal_handlers[k].args, DataNow))
    /\ modal_handlers' = Finished(k)
    /\ UNCHANGED <<calls, skip_modal>>
    /\ UNCHANGED <<sheetVars, serverVars, lifeVars, uvVars, codecVars, hostVars, nameVars>>

\* ModalExecuteMixin.modal on an event of another type: the operator is
\* finished
WindowEvent(k) ==
    /\ k \in DOMAIN modal_handlers
    /\ modal_handlers' = Finished(k)
    /\ UNCHANGED <<data_images, next_image, data_actions, next_action,
                   update_image_args, update_spritesheet_args, update_frame_args,
                   calls, runs, skip_modal>>
    /\ UNCHANGED <<sheetVars, serverVars, lifeVars, uvVars, codecVars, hostVars, nameVars>>

\* the user removes an image: what pointed to it points to nothing
ImagesRemove(img) ==
    /\ img \in DOMAIN data_images
    /\ data_images' =
          [i \in DOMAIN data_images \ {img} |->
              [data_images[i] EXCEPT !.sheet = IF @ = img THEN 0 ELSE @,
                                     !.origin = IF @ = img THEN 0 ELSE @]]
    /\ data_actions' =
          [a \in DOMAIN data_actions |->
              [data_actions[a] EXCEPT !.sprite = IF @ = img THEN 0 ELSE @]]
    /\ UNCHANGED <<next_image, next_action, update_image_args, update_spritesheet_args,
                   update_frame_args, modal_handlers, calls, runs, skip_modal>>
    /\ UNCHANGED <<sheetVars, serverVars, lifeVars, uvVars, codecVars, hostVars, nameVars>>

ModifyOps == {"image", "spritesheet", "frame"}

ModifyNext ==
    \/ \E kind \in ModifyOps : Modify(kind)
    \/ \E k \in DOMAIN modal_handlers : TimerEvent(k)
    \/ \E k \in DOMAIN modal_handlers : WindowEvent(k)
    \/ \E img \in DOMAIN data_images : ImagesRemove(img)

\* peer 1 is connected, with or without a UV watch; the file holds one image
\* opened from a sprite, and no action yet
ModifyInit ==
    /\ sheetPc = "idle" /\ sheetMsg = None /\ sheetOp = None
    /\ sheetTex = None /\ sheetView = None /\ sheetReports = 0
    /\ server_up = TRUE /\ ws = 1 /\ wsClosed = [p \in Peers |-> FALSE]
    /\ uv_sync_auto \in BOOLEAN
    /\ watch = (IF uv_sync_auto THEN 1 ELSE 0)
    /\ running = watch
    /\ active_sprite = NoName
    /\ pc = [p \in Peers |-> IF p = 1 THEN "iter" ELSE "none"]
    /\ inq = [p \in Peers |-> <<>>]
    /\ received = [p \in Peers |-> <<>>]
    /\ tasks = [p \in Peers |-> <<>>]
    /\ events = [p \in Peers |-> <<>>]
    /\ outbox = [p \in Peers |-> IF p = 1 THEN 1 ELSE 0]
    /\ spinning = 0
    /\ reports = [INFO |-> 1, WARNING |-> 0, ERROR |-> 0]
    /\ site = "started" /\ bound = TRUE /\ stops = <<>> /\ futures = <<>>
    /\ loop_errors = 0 /\ sync_flags = {} /\ op = <<"start_server", "FINISHED">>
    /\ peer_flags = [p \in Peers |-> IF p = 1 THEN {} ELSE None]
    /\ now = 0 /\ timer_at = (IF uv_sync_auto THEN 0 ELSE -1)
    /\ idle_t = (IF uv_sync_auto THEN PERIOD ELSE 0)
    /\ send_pending = FALSE /\ uv_sent = <<>> /\ debounce = DefaultDebounce
    /\ uv_watch = "ALWAYS"
    /\ CodecIdle /\ HostIdle /\ NameIdle
    /\ \E flags \in {{}, {"SHOW_UV"}} :
          data_images = <<SpriteImage(<<"a">>, <<"a.ase">>, flags)>>
    /\ next_image = Len(data_images) + 1
    /\ data_actions = <<>> /\ next_action = 1
    /\ update_image_args = None /\ update_spritesheet_args = None
    /\ update_frame_args = None
    /\ modal_handlers = <<>> /\ calls = <<>> /\ runs = <<>>
    /\ skip_modal \in BOOLEAN

ModifySpec == ModifyInit /\ [][ModifyNext]_vars

(***************************************************************************)
(* util.unique_name and SB_ObjectProperties.animations_new.  A name is the *)
(* sequence of its characters.                                             *)
(***************************************************************************)
MaxAnimations == 4  \* items of obj.sb_props.animations

DigitChars == <<"0", "1", "2", "3", "4", "5", "6", "7", "8", "9">>

IsDigit(c) == \E d \in DOMAIN DigitChars : DigitChars[d] = c

\* int() of one digit
DigitValue(c) == (CHOOSE d \in DOMAIN DigitChars : DigitChars[d] = c) - 1

\* the optional group `(?:\.([0-9]{3}))?$` takes the end of the name
SuffixMatches(name) ==
    /\ Len(name) >= 4
    /\ name[Len(name) - 3] = "."
    /\ \A k \in (Len(name) - 2)..Len(name) : IsDigit(name[k])

\* the groups of `re.match("^(.*?)(?:\.([0-9]{3}))?$", name)`: the lazy first
\* group is the shortest start of the name that lets the rest match
MatchBase(name) ==
    IF SuffixMatches(name) THEN SubSeq(name, 1, Len(name) - 4) ELSE name

\* `int(suffix) if suffix else 0`
MatchCount(name) ==
    IF SuffixMatches(name)
    THEN DigitValue(name[Len(name) - 2]) * 100 + DigitValue(name[Len(name) - 1]) * 10
            + DigitValue(name[Len(name)])
    ELSE 0

\* str(n)
RECURSIVE Decimal(_)
Decimal(n) ==
    IF n < 10 THEN <<DigitChars[n + 1]>>
    ELSE Decimal(n \div 10) \o <<DigitChars[(n % 10) + 1]>>

\* f"{count:03}": at least three digits, zeros in front
Format03(count) ==
    IF count < 10 THEN <<"0", "0">> \o Decimal(count)
    ELSE IF count < 100 THEN <<"0">> \o Decimal(count)
    ELSE Decimal(count)

\* `name in collection`: the names of the items
ItemNames == {animations[i] : i \in DOMAIN animations}

\* `if not base`: base is None or the empty string
NotBase == un_base = <<>>

\* animations_new(name): an item is added, then unique_name is called with
\* the collection that holds it
AnimationsNew(name) ==
    /\ un_pc = "idle" /\ Len(animations) < MaxAnimations
    /\ animations' = Append(animations, <<>>)
    /\ un_pc' = "loop" /\ un_arg' = name /\ un_name' = name
    /\ un_base' = <<>> /\ un_count' = 0 /\ un_iters' = 0
    /\ UNCHANGED given
    /\ UNCHANGED <<sheetVars, serverVars, lifeVars, uvVars, codecVars, hostVars, dataVars>>

\* one turn of `while name in collection`, from base and count as the match
\* gives them or as the turn before left them
NextName(base, count) ==
    /\ un_base' = base
    /\ un_count' = count + 1
    /\ un_name' = base \o <<".">> \o Format03(count + 1)

UniqueNameTurn ==
    /\ un_pc = "loop" /\ un_name \in ItemNames
    /\ IF NotBase
       THEN NextName(MatchBase(un_name), MatchCount(un_name))
       ELSE NextName(un_base, un_count)
    /\ un_iters' = un_iters + 1
    /\ UNCHANGED <<animations, given, un_pc, un_arg>>
    /\ UNCHANGED <<sheetVars, serverVars, lifeVars, uvVars, codecVars, hostVars, dataVars>>

\* `return name`, and animations_new gives the name to the item it added
UniqueNameReturn ==
    /\ un_pc = "loop" /\ un_name \notin ItemNames
    /\ animations' = [animations EXCEPT ![Len(animations)] = un_name]
    /\ given' = Append(given, un_name)
    /\ un_pc' = "idle"
    /\ UNCHANGED <<un_arg, un_name, un_base, un_count, un_iters>>
    /\ UNCHANGED <<sheetVars, serverVars, lifeVars, uvVars, codecVars, hostVars, dataVars>>

\* the names the items have at first (the user names them at will), and the
\* names animations_new is called with
ItemNamesAtFirst ==
    {<<"F">>, <<"F", ".", "0", "0", "1">>, <<"F", ".", "9", "9", "9">>,
     <<"F", ".", "1", "0", "0", "0">>, <<".", "9", "9", "9">>,
     <<".", "1", "0", "0", "0">>}

NewNames ==
    {<<"F">>, <<"F", ".", "0", "0", "1">>, <<"F", ".", "9", "9", "9">>,
     <<".", "9", "9", "9">>}

\* nothing else has happened; the object has up to two items
NameInit ==
    /\ sheetPc = "idle" /\ sheetMsg = None /\ sheetOp = None
    /\ sheetTex = None /\ sheetView = None /\ sheetReports = 0
    /\ server_up = FALSE /\ ws = 0 /\ wsClosed = [p \in Peers |-> FALSE]
    /\ uv_sync_auto \in BOOLEAN
    /\ watch = 0 /\ running = 0
    /\ active_sprite = NoName
    /\ pc = [p \in Peers |-> "none"]
    /\ inq = [p \in Peers |-> <<>>]
    /\ received = [p \in Peers |-> <<>>]
    /\ tasks = [p \in Peers |-> <<>>]
    /\ events = [p \in Peers |-> <<>>]
    /\ outbox = [p \in Peers |-> 0]
    /\ spinning = 0
    /\ reports = [INFO |-> 0, WARNING |-> 0, ERROR |-> 0]
    /\ LifeIdle /\ UvIdle /\ CodecIdle /\ HostIdle /\ DataIdle
    /\ animations \in {<<>>} \cup {<<n>> : n \in ItemNamesAtFirst}
                        \cup {<<n, o>> : n \in ItemNamesAtFirst, o \in ItemNamesAtFirst}
    /\ given = <<>> /\ un_pc = "idle" /\ un_arg = <<>> /\ un_name = <<>>
    /\ un_base = <<>> /\ un_count = 0 /\ un_iters = 0

NameNext ==
    \/ \E name \in NewNames : AnimationsNew(name)
    \/ UniqueNameTurn
    \/ UniqueNameReturn

NameSpec == NameInit /\ [][NameNext]_vars


(***************************************************************************)
(* The codec on its own: a message of each kind is encoded as the wire     *)
(* table lays it out and parsed back by the handler of its tag.            *)
(***************************************************************************)
Lists(S) == UNION {[1..k -> S] : k \in 0..MaxList}

Range(seq) == {seq[i] : i \in DOMAIN seq}

\* the names of a flag set in some order
SeqOf(S) == CHOOSE seq \in [1..Cardinality(S) -> S] : Range(seq) = S

CodecStrs == {<<>>, NameA, <<97, 98>>}
CodecNames == {<<>>, NameA}
CodecBlobs == {<<>>, <<1, 2, 3, 4>>}
CodecUint2 == {0, 258}
CodecUint4 == {0, 16909060}
CodecSint4 == {-2, 0, 16909060}
CodecSizes == {<<0, 0>>, <<258, 1>>}
CodecFrames == {<<0, 100>>, <<258, 16909060>>}
CodecTags == {<<NameB, 0, 0, 0>>, <<<<>>, 258, 513, 2>>}
CodecFlags == {S \in SUBSET {FlagShowUV, <<83>>} : Cardinality(S) <= MaxList}

ImageInputs ==
    {[tag |-> TagImage,
      args |-> [size |-> size, frame |-> frame, flags |-> flags, name |-> name,
                data |-> data]] :
        size \in CodecSizes, frame \in CodecUint2, flags \in CodecFlags,
        name \in CodecNames, data \in CodecBlobs}

\* one blob for each frame: length counts both lists
FramesWithImages ==
    {fi \in Lists(CodecFrames) \X Lists(CodecBlobs) : Len(fi[1]) = Len(fi[2])}

SpritesheetInputs ==
    {[tag |-> TagSpritesheet,
      args |-> [size |-> <<u, 1>>, name |-> name, start |-> start,
                length |-> Len(fi[1]), current_frame |-> u * 65535,
                frames |-> fi[1], current_tag |-> current_tag, tags |-> tags,
                images |-> fi[2]]] :
        u \in CodecUint2, name \in CodecNames, start \in CodecSint4,
        current_tag \in CodecNames, tags \in Lists(CodecTags),
        fi \in FramesWithImages}

FrameInputs ==
    {[tag |-> TagFrame,
      args |-> [frame |-> frame, name |-> name, start |-> start, frames |-> frames]] :
        frame \in CodecUint4, name \in CodecNames, start \in CodecUint2,
        frames \in Lists(CodecFrames)}

ChangeNameInputs ==
    {[tag |-> TagChangeName, args |-> [old_name |-> old_name, new_name |-> new_name]] :
        old_name \in CodecStrs, new_name \in CodecStrs}

NewTextureInputs ==
    {[tag |-> TagNewTexture, args |-> [name |-> name, path |-> path]] :
        name \in CodecStrs, path \in CodecStrs}

ActiveSpriteInputs ==
    {[tag |-> TagActiveSprite, args |-> [name |-> name]] :
        name \in (CodecStrs \ {<<>>}) \cup {NoName}}

BatchInputs ==
    {[tag |-> TagBatch, args |-> [messages |-> messages]] :
        messages \in Lists({MsgUnknown, MsgActive})}

CodecInputs ==
    ImageInputs \cup SpritesheetInputs \cup FrameInputs \cup ChangeNameInputs
        \cup NewTextureInputs \cup ActiveSpriteInputs \cup BatchInputs

\* the message of tag `tag` with the fields a, as the wire table lays it out
EncodeMsg(tag, a) ==
    CASE tag = TagBatch -> EncodeBatch(a.messages)
      [] tag = TagImage -> EncodeImage(a.size, a.frame, SeqOf(a.flags), a.name, a.data)
      [] tag = TagSpritesheet ->
            EncodeSpritesheet(a.size, a.name, a.start, a.current_frame, a.frames,
                              a.current_tag, a.tags, a.images)
      [] tag = TagFrame -> EncodeFrame(a.frame, a.name, a.start, a.frames)
      [] tag = TagChangeName -> EncodeChangeName(a.old_name, a.new_name)
      [] tag = TagNewTexture -> EncodeNewTexture(a.name, a.path)
      [] tag = TagActiveSprite ->
            EncodeActiveSprite(IF a.name = NoName THEN <<>> ELSE a.name)

FormatOf(tag) ==
    CASE tag = TagBatch -> BatchFormat
      [] tag = TagImage -> ImageFormat
      [] tag = TagSpritesheet -> SpritesheetFormat
      [] tag = TagFrame -> FrameFormat
      [] tag = TagChangeName -> ChangeNameFormat
      [] tag = TagNewTexture -> NewTextureFormat
      [] tag = TagActiveSprite -> ActiveSpriteFormat

\* where the parse of the message stops: the bytes read, the tag included
ParsedUpTo(c) == IF c.ok THEN c.at ELSE -1

CodecInit ==
    /\ sheetPc = "idle" /\ sheetMsg = None /\ sheetOp = None
    /\ sheetTex = None /\ sheetView = None /\ sheetReports = 0
    /\ server_up = FALSE /\ ws = 0 /\ wsClosed = [p \in Peers |-> FALSE]
    /\ uv_sync_auto = FALSE /\ watch = 0 /\ running = 0
    /\ active_sprite = NoName
    /\ pc = [p \in Peers |-> "none"]
    /\ inq = [p \in Peers |-> <<>>]
    /\ received = [p \in Peers |-> <<>>]
    /\ tasks = [p \in Peers |-> <<>>]
    /\ events = [p \in Peers |-> <<>>]
    /\ outbox = [p \in Peers |-> 0]
    /\ spinning = 0
    /\ reports = [INFO |-> 0, WARNING |-> 0, ERROR |-> 0]
    /\ LifeIdle /\ UvIdle
    /\ codecPc = "input" /\ codecIn \in CodecInputs /\ codecOut = None
    /\ HostIdle /\ DataIdle /\ NameIdle

CodecEncoded(wire) ==
    /\ codecPc' = "encoded"
    /\ codecOut' = [wire |-> wire]

CodecEncode ==
    /\ codecPc = "input"
    /\ CodecEncoded(EncodeMsg(codecIn.tag, codecIn.args))
    /\ UNCHANGED <<codecIn, sheetVars, serverVars, lifeVars, uvVars, hostVars, dataVars, nameVars>>

CodecDecoded(wire, d, c) ==
    /\ codecPc' = "decoded"
    /\ codecOut' = [wire |-> wire, decoded |-> d, at |-> ParsedUpTo(c)]

\* Handlers.process up to the call of execute
CodecDecode ==
    /\ codecPc = "encoded"
    /\ CodecDecoded(codecOut.wire, Dispatch(codecOut.wire),
                    Read(Cursor(codecOut.wire), FormatOf(codecOut.wire[1])).c)
    /\ UNCHANGED <<codecIn, sheetVars, serverVars, lifeVars, uvVars, hostVars, dataVars, nameVars>>

CodecNext == CodecEncode \/ CodecDecode

CodecSpec == CodecInit /\ [][CodecNext]_vars

(***************************************************************************)
(* The UV watch on its own: Server._receive starts a watch when a peer     *)
(* connects and stops it when the peer is gone; bpy.app.timers calls       *)
(* timer_callback when its time has come, or later.                        *)
(***************************************************************************)
WatchInit ==
    /\ sheetPc = "idle" /\ sheetMsg = None /\ sheetOp = None
    /\ sheetTex = None /\ sheetView = None /\ sheetReports = 0
    /\ server_up = TRUE /\ ws = 0 /\ wsClosed = [p \in Peers |-> FALSE]
    /\ uv_sync_auto = TRUE /\ watch = 0 /\ running = 0
    /\ active_sprite \in {NoName, NameA}
    /\ pc = [p \in Peers |-> "none"]
    /\ inq = [p \in Peers |-> <<>>]
    /\ received = [p \in Peers |-> <<>>]
    /\ tasks = [p \in Peers |-> <<>>]
    /\ events = [p \in Peers |-> <<>>]
    /\ outbox = [p \in Peers |-> 0]
    /\ spinning = 0
    /\ reports = [INFO |-> 0, WARNING |-> 0, ERROR |-> 0]
    /\ site = "started" /\ bound = TRUE /\ stops = <<>> /\ futures = <<>>
    /\ loop_errors = 0 /\ peer_flags = [p \in Peers |-> None]
    /\ sync_flags \in {{}, {"SHEET"}, {"SHOW_UV"}}
    /\ op = <<"start_server", "FINISHED">>
    /\ now = 0 /\ timer_at = -1 /\ idle_t = 0 /\ send_pending = FALSE
    /\ uv_sent = <<>> /\ debounce \in {PERIOD, DefaultDebounce}
    /\ uv_watch \in UvWatchItems
    /\ CodecIdle /\ HostIdle /\ DataIdle /\ NameIdle

WatchFrame ==
    UNCHANGED <<sheetVars, lifeVars, codecVars, hostVars, dataVars, nameVars, server_up, ws, wsClosed, uv_sync_auto,
                active_sprite, pc, inq, received, tasks, events, outbox, spinning,
                reports>>

\* `addon.watch = UVWatch(); addon.watch.start()`
WatchStart ==
    /\ watch = 0 /\ running = 0
    /\ watch' = 1 /\ running' = 1
    /\ UVWatchStart
    /\ WatchFrame

\* `addon.watch.stop(); addon.watch = None`
WatchStop ==
    /\ watch # 0 /\ watch = running
    /\ watch' = 0 /\ running' = 0
    /\ UNCHANGED uvVars
    /\ WatchFrame

\* the timer calls timer_callback: a watch that is not the running one
\* returns None and the timer is dropped, the running one asks for the next
\* call after PERIOD
TimerFires ==
    /\ timer_at >= 0 /\ now >= timer_at
    /\ IF running = 0
       THEN timer_at' = -1 /\ UNCHANGED <<idle_t, send_pending, uv_sent>>
       ELSE /\ timer_at' = now + PERIOD
            /\ \E elsewhere, changed \in BOOLEAN :
                  Called(TimerCallback(idle_t, send_pending, Asleep(elsewhere), changed))
    /\ UNCHANGED <<now, debounce, uv_watch, watch, running>>
    /\ WatchFrame

Tick ==
    /\ now < MaxTime
    /\ now' = now + 1
    /\ UNCHANGED <<timer_at, idle_t, send_pending, uv_sent, debounce, uv_watch, watch,
                   running>>
    /\ WatchFrame

\* the user picks another item of the Update setting
SetUvWatch ==
    /\ \E item \in UvWatchItems \ {uv_watch} : uv_watch' = item
    /\ UNCHANGED <<now, timer_at, idle_t, send_pending, uv_sent, debounce, watch,
                   running>>
    /\ WatchFrame

WatchNext == WatchStart \/ WatchStop \/ TimerFires \/ Tick \/ SetUvWatch

WatchSpec == WatchInit /\ [][WatchNext]_vars

(***************************************************************************)
(* Properties of the receive loop and the dispatcher                       *)
(***************************************************************************)
Last(seq) == seq[Len(seq)]

\* what the dispatcher did, without the message number and the outcome
Effect(e) == <<e.ev, e.tag, e.args>>

\* C1: on every connection at most one process call is in progress, it is the
\* call for the message received last, and everything the dispatcher did for
\* message k comes before anything it did for message k+1.
C1_OneMessageAtATime ==
    \A p \in Peers :
        /\ Len(tasks[p]) <= 1
        /\ \A t \in DOMAIN tasks[p] : tasks[p][t].k = Len(received[p])
        /\ \A i \in DOMAIN events[p] : events[p][i].k \in 1..Len(received[p])
        /\ \A i, j \in DOMAIN events[p] : i < j => events[p][i].k <= events[p][j].k

\* a batch of two was handled in two steps, then the next message
C1_Witness ==
    /\ received[1] = <<3, 1>>
    /\ Len(events[1]) = 3
    /\ events[1][1].k = 1 /\ events[1][2].k = 1 /\ events[1][3].k = 2
    /\ tasks[1] = <<>>

\* the messages of a batch, and of the batches in it, in the order of the body
RECURSIVE Flatten(_)
RECURSIVE FlattenAll(_)
Flatten(data) ==
    LET d == Dispatch(data)
    IN  IF d.kind = "execute" /\ d.tag = TagBatch
        THEN FlattenAll(d.args.messages)
        ELSE <<data>>

FlattenAll(messages) ==
    IF messages = <<>> THEN <<>>
    ELSE Flatten(Head(messages)) \o FlattenAll(Tail(messages))

\* what dispatching each of the messages on its own does
Unbatched(messages) ==
    [i \in DOMAIN messages |->
        LET d == Dispatch(messages[i]) IN <<d.kind, d.tag, d.args>>]

ReceivedMsgs(p) == [i \in DOMAIN received[p] |-> WireMsgs[received[p][i]]]

IsPrefix(a, b) == Len(a) <= Len(b) /\ a = SubSeq(b, 1, Len(a))

\* C2: what the dispatcher does for the messages it received, batches and
\* batches within batches included, is what it does for the messages of the
\* batches dispatched one after another: the same handlers with the same
\* arguments in the same order, all of them once the process call has returned.
C2_BatchTransparency ==
    \A p \in Peers :
        LET done == [i \in DOMAIN events[p] |-> Effect(events[p][i])]
            flat == Unbatched(FlattenAll(ReceivedMsgs(p)))
        IN  /\ IsPrefix(done, flat)
            /\ (pc[p] = "iter" /\ tasks[p] = <<>>) => done = flat
            /\ (pc[p] = "crashed" /\ done # <<>>) => Last(events[p]).res = "raised"

\* the batch with a batch in it: image, no sprite, a cut message, new texture
C2_Witness ==
    /\ received[1] = <<8>> /\ tasks[1] = <<>> /\ pc[1] = "iter"
    /\ [i \in DOMAIN events[1] |-> events[1][i].tag]
         = <<TagImage, TagActiveSprite, TagActiveSprite, TagNewTexture>>
    /\ [i \in DOMAIN events[1] |-> events[1][i].ev]
         = <<"execute", "execute", "truncated", "execute">>

\* the message process handles next on the connection of p
NextMessage(p) == Head(Head(tasks[p][1].stack))

Handled(p) == tasks[p] # <<>> /\ events'[p] # events[p]

\* the step leaves everything alone but the call, the events and the reports
OnlyReported(p, kind) ==
    /\ events'[p] = Append(events[p],
            [k |-> tasks[p][1].k, ev |-> kind, tag |-> NextMessage(p)[1],
             args |-> None, res |-> "reported"])
    /\ reports' = [reports EXCEPT !.ERROR = @ + 1]
    /\ pc'[p] = "iter" /\ wsClosed' = wsClosed
    /\ <<active_sprite, outbox, watch, running, spinning>>'
         = <<active_sprite, outbox, watch, running, spinning>>
    /\ tasks'[p] = Advance(p, 1, <<Tail(Head(tasks[p][1].stack))>>
                                    \o Tail(tasks[p][1].stack))

\* C8: when process handles a message whose first byte is no registered tag it
\* reports one error, runs no handler, raises nothing and leaves the connection
\* open and the call going on with the messages that follow; a connection never
\* ends on such a message.
C8_UnknownTagResilience ==
    /\ [][\A p \in Peers :
            (Handled(p) /\ NextMessage(p)[1] \notin Registered)
                => OnlyReported(p, "unknown")]_vars
    /\ [](\A p \in Peers : \A i \in DOMAIN events[p] :
            events[p][i].tag \notin Registered
                => /\ events[p][i].ev = "unknown" /\ events[p][i].res = "reported"
                   /\ (pc[p] = "crashed" => i < Len(events[p])))

\* an unknown message, then a frame flip that was executed
C8_Witness ==
    /\ received[1] = <<6, 1>> /\ tasks[1] = <<>> /\ pc[1] = "iter"
    /\ Len(events[1]) = 2
    /\ events[1][1].ev = "unknown" /\ events[1][1].k = 1
    /\ events[1][2].ev = "execute" /\ events[1][2].tag = TagFrame
    /\ events[1][2].k = 2 /\ events[1][2].res = "applied"

\* C9: when process handles a message of a registered tag whose parse runs
\* past the end of the buffer, the handler is not executed; one error is
\* reported, nothing is raised, the connection stays open and the messages that
\* follow are handled; a connection never ends on such a message.
C9_TruncatedMessageContained ==
    /\ [][\A p \in Peers :
            (/\ Handled(p)
             /\ NextMessage(p)[1] \in Registered
             /\ ~Parse(NextMessage(p)[1], Cursor(NextMessage(p))).ok)
                => OnlyReported(p, "truncated")]_vars
    /\ [](\A p \in Peers : \A i \in DOMAIN events[p] :
            events[p][i].ev = "truncated"
                => /\ events[p][i].res = "reported"
                   /\ (pc[p] = "crashed" => i < Len(events[p])))

\* the spritesheet message cut off mid-field, then a whole one
C9_Witness ==
    /\ received[1] = <<7, 4>> /\ tasks[1] = <<>> /\ pc[1] = "iter"
    /\ Len(events[1]) = 2
    /\ events[1][1].ev = "truncated" /\ events[1][1].tag = TagSpritesheet
    /\ events[1][1].k = 1
    /\ events[1][2].ev = "execute" /\ events[1][2].tag = TagSpritesheet
    /\ events[1][2].k = 2 /\ events[1][2].res = "applied"

\* C10: at most one receive loop feeds the dispatcher, and the process calls of
\* two peers are never in progress together.
C10_SinglePeer ==
    /\ Cardinality({p \in Peers : pc[p] = "iter"}) <= 1
    /\ Cardinality({p \in Peers : tasks[p] # <<>>}) <= 1

\* some frame's blob is not size[0] * size[1] * 4 bytes long
BadBlob(args) ==
    \E i \in DOMAIN args.images : Len(args.images[i]) # args.size[1] * args.size[2] * 4

\* C16: a Spritesheet message with a frame blob of the wrong size is aborted
\* with a reported error: nothing is raised, the connection stays open and the
\* messages after it are processed
C16_FrameSizeRejected ==
    \A p \in Peers : \A i \in DOMAIN events[p] :
        (/\ events[p][i].ev = "execute" /\ events[p][i].tag = TagSpritesheet
         /\ BadBlob(events[p][i].args))
            => /\ events[p][i].res = "reported"
               /\ (pc[p] = "crashed" => i < Len(events[p]))

\* C18: an ActiveSprite message completes without error, with or without a UV
\* watch, and the name it carried is the active sprite (none for the empty one)
C18_ActiveSpriteExecute ==
    \A p \in Peers : \A i \in DOMAIN events[p] :
        (events[p][i].ev = "execute" /\ events[p][i].tag = TagActiveSprite)
            => /\ events[p][i].res = "applied"
               /\ (i = Len(events[p]) => active_sprite = events[p][i].args.name)

\* C17: a message of any kind, encoded as the wire table says, is parsed back
\* to the same fields (empty strings, empty blobs, empty and full flag sets
\* included), and the parse stops at the last byte of the message
C17_RoundTrip ==
    codecPc = "decoded"
        => /\ codecOut.decoded.kind = "execute"
           /\ codecOut.decoded.tag = codecIn.tag
           /\ codecOut.decoded.args = codecIn.args
           /\ codecOut.at = Len(codecOut.wire)

\* a sheet of two frames and two tags with an empty name, a negative start
\* and an empty blob came back whole
C17_Witness ==
    /\ codecPc = "decoded" /\ codecIn.tag = TagSpritesheet
    /\ codecIn.args.name = <<>> /\ codecIn.args.start < 0
    /\ codecIn.args.length = 2 /\ Len(codecIn.args.tags) = 2
    /\ codecIn.args.images[2] = <<>>
    /\ codecOut.decoded.args = codecIn.args
    /\ codecOut.at = Len(codecOut.wire)

(***************************************************************************)
(* Properties of the server's life                                         *)
(***************************************************************************)
\* Addon.server_up and Addon.connected as the states of the transport
TransportState ==
    IF ~server_up THEN "Idle"
    ELSE IF ws # 0 /\ ~wsClosed[ws] THEN "Connected"
    ELSE "Listening"

\* C11: the transport leaves Connected only for Idle (peer disconnect or
\* stop), and no message is dispatched to a handler while it is Idle
C11_Transport ==
    [][/\ (TransportState = "Connected" /\ TransportState' # "Connected"
              => TransportState' = "Idle")
       /\ (TransportState = "Idle" => events' = events)]_vars

\* C12: a send while the transport is not Connected is a no-op: no
\* send_bytes future is queued, so none can fail later on the event loop
C12_SendNoOp ==
    [][TransportState # "Connected" => Len(futures') <= Len(futures)]_vars

StartFailed == op[1] = "start_server" /\ op[2] \in {"OSError", "RuntimeError"}

\* C13: a start that raised left nothing: server_up is false and no Server
\* or site is kept, and no later start finds a server already created
\* while none runs
C13_FailedStartLeavesNothing ==
    /\ StartFailed => ~server_up /\ site = "none"
    /\ op = <<"start_server", "already created">> => site = "started"

\* C14: once a peer has disconnected and no peer is connected, the session
\* is not connected and its active sprite is none
C14_SessionReset ==
    (\E p \in Peers : pc[p] = "done") /\ (\A p \in Peers : pc[p] # "iter")
        => TransportState # "Connected" /\ active_sprite = NoName

\* C15: what stop schedules releases the port, so that no start after a
\* stop fails to bind
C15_StopReleases ==
    op # <<"start_server", "OSError">>

\* C19: sprite_make_animated finishes without error in every state of the
\* connection, with SHEET among the sync flags
C19_MakeAnimated ==
    op[1] = "sprite_make_animated"
        => op[2] = "FINISHED" /\ "SHEET" \in sync_flags

\* C23: while ChangeName.execute waits for the UI to be unlocked it yields
\* control: what is ready on the event loop can run
C23_RenameWaitYields ==
    (spinning # 0 /\ futures # <<>>) => ENABLED SendStep

\* C22: one UV watch at a time: addon.watch is the running watch (no start
\* while a watch runs, no stop of a watch that is not the running one), and no
\* watch runs when no peer is connected
C22_OneWatch ==
    /\ watch = running
    /\ (\A p \in Peers : pc[p] # "iter") => running = 0

(***************************************************************************)
(* Properties of the updates of modify.py                                  *)
(***************************************************************************)
\* C25: a run of modal_execute for an Image, Spritesheet or Frame update whose
\* name is the sync name of no image creates no image and no action and
\* changes no image and no action
C25_NoRevival ==
    [][(/\ Len(runs') = Len(runs) + 1
        /\ \A i \in DOMAIN data_images :
              data_images[i].sync_name # runs'[Len(runs')].args.name)
          => /\ data_images' = data_images /\ next_image' = next_image
             /\ data_actions' = data_actions /\ next_action' = next_action]_vars

\* the image was removed after its spritesheet update: the frame update that
\* came then for its name left the actions as the spritesheet update made them
C25_Witness ==
    /\ Len(runs) = 2 /\ 1 \notin DOMAIN data_images
    /\ runs[1].op = "spritesheet" /\ runs[1].args.name = <<"a.ase">>
    /\ runs[2].op = "frame" /\ runs[2].args.name = <<"a.ase">>
    /\ DOMAIN data_images # {} /\ DOMAIN data_actions # {}
    /\ \A a \in DOMAIN data_actions : data_actions[a].keys.by = "spritesheet"

\* C26: a spritesheet update removes, of the actions of the sprite, exactly
\* those whose tag is not __loop__, not __view__ and no tag of the message;
\* the other actions of the sprite are the same actions after the update
C26_PurgeRemovedTags ==
    [][(/\ Len(runs') = Len(runs) + 1
        /\ runs'[Len(runs')].op = "spritesheet" /\ ~runs'[Len(runs')].raised)
          => \A a \in DOMAIN data_actions :
                (/\ data_actions[a].sprite \in DOMAIN data_images
                 /\ data_images[data_actions[a].sprite].sync_name
                        = runs'[Len(runs')].args.name)
                    => (a \in DOMAIN data_actions'
                          <=> data_actions[a].tag \in
                                {"__loop__", "__view__"}
                                    \cup TagNames(runs'[Len(runs')].args.tags))]_vars

\* C28: every modify.image, modify.spritesheet and modify.frame call gets one
\* run of modal_execute, with its own arguments, and the runs come in the order
\* of the calls: the runs so far are those of the first calls, and no operator
\* is finished without its run
C28_OneRunPerCall ==
    /\ Len(runs) <= Len(calls)
    /\ \A k \in DOMAIN runs :
          /\ runs[k].call = k
          /\ runs[k].op = calls[k].op /\ runs[k].args = calls[k].args
    /\ modal_handlers = <<>> => Len(runs) = Len(calls)

(***************************************************************************)
(* Properties of unique_name                                               *)
(***************************************************************************)
\* the name without a trailing 3-digit '.NNN' suffix
WithoutSuffix(name) ==
    IF /\ Len(name) >= 4 /\ name[Len(name) - 3] = "."
       /\ \A k \in (Len(name) - 2)..Len(name) : IsDigit(name[k])
    THEN SubSeq(name, 1, Len(name) - 4)
    ELSE name

\* name is base, a dot and digits
NumericSuffixOn(base, name) ==
    /\ Len(name) > Len(base) + 1
    /\ SubSeq(name, 1, Len(base)) = base /\ name[Len(base) + 1] = "."
    /\ \A k \in (Len(base) + 2)..Len(name) : IsDigit(name[k])

\* C27: unique_name ends after at most one turn of its loop per name of the
\* collection; it returns the name it was given when that is not in the
\* collection, and else a name that is not in the collection, made of the base
\* of the name given, a dot and digits; the names animations_new gives to the
\* items of one object are pairwise distinct
C27_UniqueName ==
    /\ [](un_iters <= Cardinality(ItemNames \ {<<>>}))
    /\ [][(un_pc = "loop" /\ un_pc' = "idle")
            => /\ un_name \notin ItemNames
               /\ un_arg \notin ItemNames => un_name = un_arg
               /\ un_arg \in ItemNames
                    => NumericSuffixOn(WithoutSuffix(un_arg), un_name)]_vars
    /\ [](\A i, j \in DOMAIN given : i # j => given[i] # given[j])

\* the handlers that skip their update on a locked UI
UpdateTags == {TagImage, TagSpritesheet, TagFrame, TagNewTexture}

\* C24: when the UI is locked as an Image, Spritesheet, Frame or NewTexture
\* message is executed, the update is skipped: one warning is reported, nothing
\* is raised and the call goes on with the next message
C24_LockedUpdateSkipped ==
    [][\A p \in Peers :
          (/\ Handled(p) /\ interface_locked'
           /\ events'[p][Len(events'[p])].ev = "execute"
           /\ events'[p][Len(events'[p])].tag \in UpdateTags)
              => /\ events'[p][Len(events'[p])].res = "skipped"
                 /\ reports' = [reports EXCEPT !.WARNING = @ + 1]
                 /\ pc'[p] = "iter"]_vars

(***************************************************************************)
(* Properties of the UV watch                                              *)
(***************************************************************************)
\* C20: any two consecutive uv_send calls of the watch timer are at least
\* prefs.debounce apart, the first sends after a start of the watch included
C20_Debounce ==
    \A i \in 1..(Len(uv_sent) - 1) : uv_sent[i + 1] - uv_sent[i] >= debounce

\* C21: no call of the watch timer sends a UV map while uv_watch is NEVER, or
\* while the sync flags of the active sprite's image lack SHOW_UV
C21_ManualNeverSends ==
    [][(uv_watch = "NEVER" \/ "SHOW_UV" \notin sync_flags) => uv_sent' = uv_sent]_vars

====
